---- MODULE Spec2Model ----
(***************************************************************************)
(* A model of frame-check-core: the column tracker (tracker.py), the       *)
(* reference extractors (extractors/), the pandas handlers (ast/,          *)
(* handlers/) and the AST visitor that drives them (checker.py).           *)
(*                                                                         *)
(* A source file is a sequence of statements; a statement is a Python ast  *)
(* node, written as a record tagged by its class name in field k.  A node  *)
(* is identified (Python's id(node)) by its path from the module root:     *)
(* the statement's index followed by child indexes in _fields order.       *)
(***************************************************************************)
EXTENDS Integers, Sequences, FiniteSets, TLC

VARIABLES
    src,              \* the module being checked: a sequence of statements
    pc,               \* number of statements whose visit_* handler has run
    pending,          \* Subscript nodes generic_visit still has to visit
    skip_subscripts,  \* Checker._skip_subscripts
    diagnostics,      \* Checker.diagnostics
    dfs,              \* Checker.dfs: name -> Tracker
    pandas_aliases,   \* Checker.pandas_aliases
    definitions,      \* Checker.definitions: name -> Result
    trk,              \* a Tracker driven directly through its API
    ret,              \* what the last call of an API returned
    _registry,        \* Extractor._registry, shared by every checker
    _sorted,          \* Extractor._sorted
    called,           \* the extractors the last registry call called, in order
    thr,              \* the threads that call Extractor.extract at the same time
    _instances        \* InstanceTimeline._instances of one timeline

vars == <<src, pc, pending, skip_subscripts, diagnostics, dfs, pandas_aliases,
          definitions, trk, ret, _registry, _sorted, called, thr, _instances>>

registryVars == <<_registry, _sorted>>

checkerVars == <<src, pc, pending, skip_subscripts, diagnostics, dfs,
                 pandas_aliases, definitions>>

-----------------------------------------------------------------------------
(* Python values the model needs: None, and a function with no keys.       *)

None == [none |-> TRUE]
Some(v) == [none |-> FALSE, v |-> v]

EmptyMap == [x \in {} |-> {}]

\* bool(s) for a str | None result: None and "" are falsy
TruthyStr(r) == (~r.none) /\ r.v # ""

\* bool(l) for a list | None result: None and [] are falsy
TruthyList(r) == (~r.none) /\ Len(r.v) > 0

SeqToSet(s) == {s[i] : i \in 1..Len(s)}

-----------------------------------------------------------------------------
(* ast nodes                                                               *)

\* ast.Constant holding a str
Str(s) == [k |-> "Constant", isstr |-> TRUE, value |-> s]
\* ast.Constant holding an int (its digits kept as text)
Num(s) == [k |-> "Constant", isstr |-> FALSE, value |-> s]
Name(id) == [k |-> "Name", id |-> id]
Subscript(value, slice) == [k |-> "Subscript", value |-> value, slice |-> slice]
List(elts) == [k |-> "List", elts |-> elts]
Dict(keys, values) == [k |-> "Dict", keys |-> keys, values |-> values]
BinOp(left, right) == [k |-> "BinOp", left |-> left, right |-> right]
Attribute(value, attr) == [k |-> "Attribute", value |-> value, attr |-> attr]
\* body if test else orelse
IfExp(test, body, orelse) == [k |-> "IfExp", test |-> test, body |-> body, orelse |-> orelse]
keyword(arg, value) == [k |-> "keyword", arg |-> arg, value |-> value]
Call(func, args, keywords) ==
    [k |-> "Call", func |-> func, args |-> args, keywords |-> keywords]
\* alias.asname of an import without "as" (None in the source)
NoAsname == "<None>"
alias(name, asname) == [k |-> "alias", name |-> name, asname |-> asname]
Import(names) == [k |-> "Import", names |-> names]
Assign(targets, value) == [k |-> "Assign", targets |-> targets, value |-> value]
Expr(value) == [k |-> "Expr", value |-> value]
\* the None that stands for the key of a ** entry in ast.Dict.keys
NoneKey == [k |-> "NoneKey"]

\* ast.iter_child_nodes: the child nodes in _fields order
Children(n) ==
    CASE n.k = "Subscript" -> <<n.value, n.slice>>
      [] n.k = "List" -> n.elts
      [] n.k = "Dict" -> n.keys \o n.values
      [] n.k = "BinOp" -> <<n.left, n.right>>
      [] n.k = "Attribute" -> <<n.value>>
      [] n.k = "IfExp" -> <<n.test, n.body, n.orelse>>
      [] n.k = "keyword" -> <<n.value>>
      [] n.k = "Call" -> <<n.func>> \o n.args \o n.keywords
      [] n.k = "Import" -> n.names
      [] n.k = "Assign" -> n.targets \o <<n.value>>
      [] n.k = "Expr" -> <<n.value>>
      [] OTHER -> <<>>

\* refs.py type guards
is_name(n) == n.k = "Name"
is_constant(n) == n.k = "Constant"
is_subscript(n) == n.k = "Subscript"
is_binop(n) == n.k = "BinOp"

-----------------------------------------------------------------------------
(* tracker.py: Tracker.  columns maps a column name to the set of column   *)
(* names it depends on.                                                    *)

Tracker(id_, mode) == [id_ |-> id_, mode |-> mode, columns |-> EmptyMap]

_is_strict(t) == t.mode = "strict"

\* depends_on: str | list[str] | None
DepStr(s) == [none |-> FALSE, isstr |-> TRUE, s |-> s]
DepList(l) == [none |-> FALSE, isstr |-> FALSE, l |-> l]

\* dict assignment columns[c] = d
SetCol(columns, c, d) == [x \in (DOMAIN columns) \cup {c} |-> IF x = c THEN d ELSE columns[x]]

\* Tracker.try_get: the return value and the tracker afterwards
try_get(t, column) ==
    IF column \in DOMAIN t.columns THEN [ret |-> None, t |-> t]
    ELSE IF _is_strict(t) THEN [ret |-> Some(column), t |-> t]
    ELSE [ret |-> None, t |-> [t EXCEPT !.columns = SetCol(@, column, {})]]

\* a variant of the comprehension that stops at the first missing dependency
RECURSIVE MissingDeps_FirstOnly(_, _)
MissingDeps_FirstOnly(dependencies, columns) ==
    IF dependencies = <<>> THEN <<>>
    ELSE IF Head(dependencies) \notin DOMAIN columns THEN <<Head(dependencies)>>
    ELSE MissingDeps_FirstOnly(Tail(dependencies), columns)

\* [dep for dep in dependencies if dep not in columns]
RECURSIVE MissingDeps(_, _)
MissingDeps(dependencies, columns) ==
    IF dependencies = <<>> THEN <<>>
    ELSE (IF Head(dependencies) \in DOMAIN columns THEN <<>> ELSE <<Head(dependencies)>>)
         \o MissingDeps(Tail(dependencies), columns)

\* a variant of the relaxed loop that creates no column
CreateDeps_Skip(dependencies, columns) == columns

\* the relaxed loop: for dep in dependencies: if dep not in columns: columns[dep] = set()
RECURSIVE CreateDeps(_, _)
CreateDeps(dependencies, columns) ==
    IF dependencies = <<>> THEN columns
    ELSE CreateDeps(Tail(dependencies),
                    IF Head(dependencies) \in DOMAIN columns THEN columns
                    ELSE SetCol(columns, Head(dependencies), {}))

\* a variant that rebuilds the map: columns = {column: set(dependencies)}
AddWithDeps_Rebuild(columns, column, dependencies) ==
    [x \in {column} |-> SeqToSet(dependencies)]

\* a variant that assigns: columns[column] = set(dependencies)
AddWithDeps_Overwrite(columns, column, dependencies) ==
    SetCol(columns, column, SeqToSet(dependencies))

\* if column not in columns: columns[column] = set(); columns[column].update(deps)
AddWithDeps(columns, column, dependencies) ==
    SetCol(columns, column,
           (IF column \in DOMAIN columns THEN columns[column] ELSE {})
           \cup SeqToSet(dependencies))

\* Tracker.try_add: the return value and the tracker afterwards
try_add(t, column, depends_on) ==
    IF depends_on.none THEN
        [ret |-> None,
         t |-> IF column \in DOMAIN t.columns THEN t
               ELSE [t EXCEPT !.columns = SetCol(@, column, {})]]
    ELSE
        LET Strict(dependencies, missing) ==
                IF Len(missing) > 0 THEN [ret |-> Some(missing), t |-> t]
                ELSE [ret |-> None,
                      t |-> [t EXCEPT !.columns = AddWithDeps(@, column, dependencies)]]
            Add(dependencies) ==
                IF _is_strict(t) THEN Strict(dependencies, MissingDeps(dependencies, t.columns))
                ELSE [ret |-> None,
                      t |-> [t EXCEPT !.columns = AddWithDeps(CreateDeps(dependencies, @),
                                                              column, dependencies)]]
        IN  Add(IF depends_on.isstr THEN <<depends_on.s>> ELSE depends_on.l)

\* Tracker.new_with_columns; columns is given as a set, the order of the
\* list does not reach the result
new_with_columns(id_, columns) ==
    [id_ |-> id_, mode |-> "strict", columns |-> [c \in columns |-> {}]]

\* Tracker.get_core
get_core(t) == {c \in DOMAIN t.columns : t.columns[c] = {}}

-----------------------------------------------------------------------------
(* extractors/: column references.  A ColumnRef keeps the identity of its  *)
(* Subscript node (the path), the frame name and the column names.         *)

ColumnRef(node, df_name, col_names) ==
    [node |-> node, df_name |-> df_name, col_names |-> col_names]

\* the loop over slice_node.elts of extract_column_ref: the element values,
\* or None at the first element that is not a str Constant
RECURSIVE ListColNames(_)
ListColNames(elts) ==
    IF elts = <<>> THEN Some(<<>>)
    ELSE IF ~(Head(elts).k = "Constant" /\ Head(elts).isstr) THEN None
    ELSE LET Cons(rest) == IF rest.none THEN None
                           ELSE Some(<<Head(elts).value>> \o rest.v)
         IN  Cons(ListColNames(Tail(elts)))

\* extract_column_ref without the check for an empty list of names
extract_column_ref_EmptyNames(node, path) ==
    IF ~is_subscript(node) THEN None
    ELSE IF ~is_name(node.value) THEN None
    ELSE IF is_constant(node.slice) /\ node.slice.isstr
         THEN Some(<<ColumnRef(path, node.value.id, <<node.slice.value>>)>>)
    ELSE IF node.slice.k = "List" THEN
         LET Multi(col_names) ==
                 IF col_names.none THEN None
                 ELSE Some(<<ColumnRef(path, node.value.id, col_names.v)>>)
         IN  Multi(ListColNames(node.slice.elts))
    ELSE None

\* extractors/column.py extract_column_ref; path is the node's identity
extract_column_ref(node, path) ==
    IF ~is_subscript(node) THEN None
    ELSE IF ~is_name(node.value) THEN None
    ELSE IF is_constant(node.slice) /\ node.slice.isstr
         THEN Some(<<ColumnRef(path, node.value.id, <<node.slice.value>>)>>)
    ELSE IF node.slice.k = "List" THEN
         LET Multi(col_names) ==
                 IF col_names.none THEN None
                 ELSE IF col_names.v = <<>> THEN None
                 ELSE Some(<<ColumnRef(path, node.value.id, col_names.v)>>)
         IN  Multi(ListColNames(node.slice.elts))
    ELSE None

\* extractors/column.py extract_single_column_ref: refs[0] if refs else None
extract_single_column_ref(node, path) ==
    LET First(refs) == IF TruthyList(refs) THEN Some(refs.v[1]) ELSE None
    IN  First(extract_column_ref(node, path))

\* a variant of the loop that drops a leaf that is no column reference
\* instead of giving up
RECURSIVE BinopLoop_SkipLeaf(_, _)
BinopLoop_SkipLeaf(stack, refs) ==
    IF stack = <<>> THEN (IF Len(refs) > 0 THEN Some(refs) ELSE None)
    ELSE LET Leaf(rest, ref) ==
                 IF ~ref.none THEN BinopLoop_SkipLeaf(rest, Append(refs, ref.v))
                 ELSE BinopLoop_SkipLeaf(rest, refs)
             Pop(n, p, rest) ==
                 IF is_binop(n)
                 THEN BinopLoop_SkipLeaf(rest \o << <<n.left, Append(p, 1)>>,
                                                    <<n.right, Append(p, 2)>> >>, refs)
                 ELSE Leaf(rest, extract_single_column_ref(n, p))
         IN  Pop(stack[Len(stack)][1], stack[Len(stack)][2],
                 SubSeq(stack, 1, Len(stack) - 1))

\* a variant of the loop that extends the stack with [n.right, n.left], so
\* that the left operand of a nested operation is taken first
RECURSIVE BinopLoop_LeftFirst(_, _)
BinopLoop_LeftFirst(stack, refs) ==
    IF stack = <<>> THEN (IF Len(refs) > 0 THEN Some(refs) ELSE None)
    ELSE LET Leaf(rest, ref) ==
                 IF ~ref.none THEN BinopLoop_LeftFirst(rest, Append(refs, ref.v))
                 ELSE None
             Pop(n, p, rest) ==
                 IF is_binop(n)
                 THEN BinopLoop_LeftFirst(rest \o << <<n.right, Append(p, 2)>>,
                                                     <<n.left, Append(p, 1)>> >>, refs)
                 ELSE Leaf(rest, extract_single_column_ref(n, p))
         IN  Pop(stack[Len(stack)][1], stack[Len(stack)][2],
                 SubSeq(stack, 1, Len(stack) - 1))

\* the while loop of extract_column_refs_from_binop: stack holds
\* <<node, path>> pairs, pop() takes the last one
RECURSIVE BinopLoop(_, _)
BinopLoop(stack, refs) ==
    IF stack = <<>> THEN (IF Len(refs) > 0 THEN Some(refs) ELSE None)
    ELSE LET Leaf(rest, ref) ==
                 IF ~ref.none THEN BinopLoop(rest, Append(refs, ref.v))
                 ELSE None
             Pop(n, p, rest) ==
                 IF is_binop(n)
                 THEN BinopLoop(rest \o << <<n.left, Append(p, 1)>>,
                                           <<n.right, Append(p, 2)>> >>, refs)
                 ELSE Leaf(rest, extract_single_column_ref(n, p))
         IN  Pop(stack[Len(stack)][1], stack[Len(stack)][2],
                 SubSeq(stack, 1, Len(stack) - 1))

\* extractors/binop.py extract_column_refs_from_binop
extract_column_refs_from_binop(node, path) ==
    IF ~is_binop(node) THEN None
    ELSE BinopLoop(<< <<node.left, Append(path, 1)>>, <<node.right, Append(path, 2)>> >>, <<>>)

\* Extractor.extract over the registry the package registers at import:
\* column_ref (priority 10), then binop (priority 20); the first truthy
\* result wins
extract(node, path) ==
    LET Second(r2) == IF TruthyList(r2) THEN r2 ELSE None
        First(r1) == IF TruthyList(r1) THEN r1
                     ELSE Second(extract_column_refs_from_binop(node, path))
    IN  First(extract_column_ref(node, path))

\* registry.py _RegisteredExtractor; func is the name of the function
_RegisteredExtractor(priority, name, func) ==
    [priority |-> priority, name |-> name, func |-> func]

\* the registry once extractors/column.py and extractors/binop.py have been
\* imported
ImportRegistry ==
    <<_RegisteredExtractor(10, "column_ref", "extract_column_ref"),
      _RegisteredExtractor(20, "binop", "extract_column_refs_from_binop")>>

\* a sort that leaves the list as it is
SortByPriority_Unsorted(l) == l

\* list.sort() of _RegisteredExtractor entries: by priority, and stable
RECURSIVE SortByPriority(_)
SortByPriority(l) ==
    IF l = <<>> THEN <<>>
    ELSE LET Insert(e, sorted) ==
                 SelectSeq(sorted, LAMBDA x : x.priority <= e.priority)
                     \o <<e>> \o SelectSeq(sorted, LAMBDA x : x.priority > e.priority)
         IN  Insert(l[Len(l)], SortByPriority(SubSeq(l, 1, Len(l) - 1)))

\* extractors/__init__.py extract_value_refs: the result of
\* extract_column_ref, itself a list, is wrapped in a list
extract_value_refs(node, path) ==
    LET Second(refs) == IF TruthyList(refs) THEN refs ELSE None
        First(ref) == IF TruthyList(ref) THEN Some(<<ref.v>>)
                      ELSE Second(extract_column_refs_from_binop(node, path))
    IN  First(extract_column_ref(node, path))

-----------------------------------------------------------------------------
(* handlers/models.py: Result values and argument resolution               *)

Unknown == [t |-> "Unknown"]
StrV(s) == [t |-> "str", s |-> s]
ListV(elts) == [t |-> "list", elts |-> elts]
\* a dict: m maps each key (a Result) to its value
DictV(m) == [t |-> "dict", m |-> m]

RECURSIVE get_value(_, _), GetValues(_, _), DictItems(_, _, _, _)

\* [get_value(elt, definitions) for elt in elts]
GetValues(elts, defs) ==
    IF elts = <<>> THEN <<>>
    ELSE <<get_value(Head(elts), defs)>> \o GetValues(Tail(elts), defs)

\* the zip(keys, values) loop of get_value: a later key overwrites an equal
\* earlier one
DictItems(keys, values, defs, m) ==
    IF keys = <<>> \/ values = <<>> THEN m
    ELSE IF Head(keys).k = "NoneKey" THEN DictItems(Tail(keys), Tail(values), defs, m)
    ELSE LET Put(key, value) ==
                 DictItems(Tail(keys), Tail(values), defs,
                           [x \in (DOMAIN m) \cup {key} |-> IF x = key THEN value ELSE m[x]])
         IN  Put(get_value(Head(keys), defs), get_value(Head(values), defs))

\* get_value (get_result finds no cached result: nothing calls set_result)
get_value(node, defs) ==
    CASE node.k = "Constant" /\ node.isstr -> StrV(node.value)
      [] node.k = "List" -> ListV(GetValues(node.elts, defs))
      [] node.k = "Name" -> IF node.id \in DOMAIN defs THEN defs[node.id] ELSE Unknown
      [] node.k = "Dict" -> DictV(DictItems(node.keys, node.values, defs, EmptyMap))
      [] OTHER -> Unknown

\* a variant that does not look a bare name up in definitions
get_result_NoLookup(node, defs) ==
    IF node.k = "Name" THEN Unknown ELSE get_value(node, defs)

get_result(node, defs) == get_value(node, defs)

\* keyword.arg of a **kwargs argument (None in the source)
NoArg == "<None>"

\* parse_args: positional values, and keyword name -> value
parse_args(args, keywords, defs) ==
    [argsv |-> GetValues(args, defs),
     keywordsv |-> [a \in {keywords[i].arg : i \in 1..Len(keywords)} \ {NoArg} |->
                      LET i == CHOOSE j \in 1..Len(keywords) :
                                 /\ keywords[j].arg = a
                                 /\ \A j2 \in (j+1)..Len(keywords) : keywords[j2].arg # a
                      IN  get_result(keywords[i].value, defs)]]

\* idx_or_key; idx and key are None or Some(value); args is 0-indexed in
\* the source
idx_or_key(args, keywords, idx, key) ==
    IF (~idx.none) /\ Len(args) > idx.v THEN args[idx.v + 1]
    ELSE IF (~key.none) /\ key.v \in DOMAIN keywords THEN keywords[key.v]
    ELSE Unknown

-----------------------------------------------------------------------------
(* ast/pandas.py: the constructor handlers.  Each returns the created      *)
(* column set, or None.                                                    *)

StrKeys(d) == {key.s : key \in {x \in DOMAIN d.m : x.t = "str"}}

\* a variant of the loop that passes over an entry that is no dict
RECURSIVE DictsColumns_SkipNonDict(_, _)
DictsColumns_SkipNonDict(data, columns) ==
    IF data = <<>> THEN Some(columns)
    ELSE IF Head(data).t # "dict" THEN DictsColumns_SkipNonDict(Tail(data), columns)
    ELSE DictsColumns_SkipNonDict(Tail(data), columns \cup StrKeys(Head(data)))

\* the loop of pd_dataframe over a list
RECURSIVE DictsColumns(_, _)
DictsColumns(data, columns) ==
    IF data = <<>> THEN Some(columns)
    ELSE IF Head(data).t # "dict" THEN None
    ELSE DictsColumns(Tail(data), columns \cup StrKeys(Head(data)))

pd_dataframe(args, keywords) ==
    LET Match(data) ==
            CASE data.t = "dict" -> Some(StrKeys(data))
              [] data.t = "list" -> DictsColumns(data.elts, {})
              [] OTHER -> None
    IN  Match(idx_or_key(args, keywords, Some(0), Some("data")))

\* the loop of pd_read_csv over a list
RECURSIVE UseCols(_, _)
UseCols(usecols, cols) ==
    IF usecols = <<>> THEN cols
    ELSE LET Add(col) ==
                 CASE col.t = "str" -> cols \cup {col.s}
                   [] col.t = "list" ->
                        cols \cup {x.s : x \in {y \in SeqToSet(col.elts) : y.t = "str"}}
                   [] OTHER -> cols
         IN  UseCols(Tail(usecols), Add(Head(usecols)))

pd_read_csv(args, keywords) ==
    LET Match(usecols) ==
            CASE usecols.t = "str" -> Some({usecols.s})
              [] usecols.t = "list" -> Some(UseCols(usecols.elts, {}))
              [] OTHER -> None
    IN  Match(idx_or_key(args, keywords, None, Some("usecols")))

\* PD.func_registry
PD_func_registry == {"DataFrame", "read_csv"}

\* PDMethod.__call__: the created DF's columns, or None
PDMethod(method_name, args, keywords, defs) ==
    LET Apply(p) == IF method_name = "DataFrame" THEN pd_dataframe(p.argsv, p.keywordsv)
                    ELSE pd_read_csv(p.argsv, p.keywordsv)
    IN  Apply(parse_args(args, keywords, defs))

-----------------------------------------------------------------------------
(* ast/dataframe.py: the method handlers.  Each returns the receiver's     *)
(* updated columns and the returned frame's columns (or None).             *)

UnknownArg == [isconst |-> FALSE]

\* _parse_args: the value of a Constant node, UnknownArg for anything else
ArgValue(node) ==
    IF node.k = "Constant" THEN [isconst |-> TRUE, isstr |-> node.isstr, value |-> node.value]
    ELSE UnknownArg

_parse_args(args, keywords) ==
    [args_value |-> [i \in 1..Len(args) |-> ArgValue(args[i])],
     keywords_value |-> [a \in {keywords[i].arg : i \in 1..Len(keywords)} \ {NoArg} |->
                      LET i == CHOOSE j \in 1..Len(keywords) :
                                 /\ keywords[j].arg = a
                                 /\ \A j2 \in (j+1)..Len(keywords) : keywords[j2].arg # a
                      IN  ArgValue(keywords[i].value)]]

IsStrArg(v) == v.isconst /\ v.isstr

\* df_assign that returns no frame, so that the caller falls back on the
\* unchanged columns
df_assign_NoReturned(columns, args, keywords) ==
    [updated |-> columns, returned |-> None]

df_assign(columns, args, keywords) ==
    [updated |-> columns,
     returned |-> Some(columns \cup DOMAIN _parse_args(args, keywords).keywords_value)]

insert(columns, args, keywords) ==
    LET Apply(p) ==
            [updated |->
                IF Len(p.args_value) >= 2 /\ IsStrArg(p.args_value[2])
                THEN columns \cup {p.args_value[2].value}
                ELSE IF "column" \in DOMAIN p.keywords_value
                        /\ IsStrArg(p.keywords_value["column"])
                THEN columns \cup {p.keywords_value["column"].value}
                ELSE columns,
             returned |-> None]
    IN  Apply(_parse_args(args, keywords))

\* DF.func_registry
DF_func_registry == {"assign", "insert"}

\* DFMethod.__call__
DFMethod(method_name, columns, args, keywords) ==
    IF method_name = "assign" THEN df_assign(columns, args, keywords)
    ELSE insert(columns, args, keywords)

-----------------------------------------------------------------------------
(* diagnostic/__init__.py: the three diagnostics.  region is the identity  *)
(* of the node the region is taken from.                                   *)

df_is_not_declared(node, df_name) ==
    [kind |-> "df_is_not_declared", df_name |-> df_name, cols |-> <<>>,
     write_col |-> <<>>, region |-> Append(node, 1), available |-> {}]

\* write_col holds the target column names, which the caller joins with ", "
wrong_assignment(write_col, missing_cols, write_node, df_name, available_cols) ==
    [kind |-> "wrong_assignment", df_name |-> df_name, cols |-> missing_cols,
     write_col |-> write_col, region |-> write_node, available |-> available_cols]

wrong_read(col_name, node, df_name, available_cols) ==
    [kind |-> "wrong_read", df_name |-> df_name, cols |-> <<col_name>>,
     write_col |-> <<>>, region |-> node, available |-> available_cols]

-----------------------------------------------------------------------------
(* checker.py: Checker                                                     *)

\* the Subscript nodes under n in the order NodeVisitor reaches them
\* (visit_Subscript handles a node, then generic_visit descends into it)
RECURSIVE SubsOf(_, _), SubsOfSeq(_, _, _)
SubsOf(n, path) ==
    (IF n.k = "Subscript" THEN <<[id |-> path, node |-> n]>> ELSE <<>>)
    \o SubsOfSeq(Children(n), path, 1)
SubsOfSeq(cs, path, i) ==
    IF i > Len(cs) THEN <<>>
    ELSE SubsOf(cs[i], Append(path, i)) \o SubsOfSeq(cs, path, i + 1)

\* generic_visit(node): what is left to visit below a statement
generic_visit(node, path) == SubsOfSeq(Children(node), path, 1)

\* dict assignment d[key] = value
SetKey(d, key, value) ==
    [x \in (DOMAIN d) \cup {key} |-> IF x = key THEN value ELSE d[x]]

\* case ast.Call(func=ast.Attribute(value=ast.Name(id=...), attr=...))
IsNameAttrCall(value) ==
    /\ value.k = "Call"
    /\ value.func.k = "Attribute"
    /\ value.func.value.k = "Name"

\* Checker._try_create_dataframe: whether a frame was registered, and dfs
\* afterwards
_try_create_dataframe(node, aliases, defs, frames) ==
    IF Len(node.targets) # 1 THEN [ok |-> FALSE, dfs |-> frames]
    ELSE IF ~is_name(node.targets[1]) THEN [ok |-> FALSE, dfs |-> frames]
    ELSE IF ~IsNameAttrCall(node.value) THEN [ok |-> FALSE, dfs |-> frames]
    ELSE IF node.value.func.value.id \notin aliases THEN [ok |-> FALSE, dfs |-> frames]
    ELSE IF node.value.func.attr \notin PD_func_registry THEN [ok |-> FALSE, dfs |-> frames]
    ELSE LET Register(df_name, created_df) ==
                 IF created_df.none THEN [ok |-> FALSE, dfs |-> frames]
                 ELSE [ok |-> TRUE,
                       dfs |-> SetKey(frames, df_name,
                                      new_with_columns(df_name, created_df.v))]
         IN  Register(node.targets[1].id,
                      PDMethod(node.value.func.attr, node.value.args,
                               node.value.keywords, defs))

\* Checker._try_dataframe_method
_try_dataframe_method(node, defs, frames) ==
    IF Len(node.targets) # 1 THEN [ok |-> FALSE, dfs |-> frames]
    ELSE IF ~is_name(node.targets[1]) THEN [ok |-> FALSE, dfs |-> frames]
    ELSE IF ~IsNameAttrCall(node.value) THEN [ok |-> FALSE, dfs |-> frames]
    ELSE IF node.value.func.value.id \notin DOMAIN frames THEN [ok |-> FALSE, dfs |-> frames]
    ELSE IF node.value.func.attr \notin DF_func_registry THEN [ok |-> FALSE, dfs |-> frames]
    ELSE LET Register(result_name, result_df) ==
                 [ok |-> TRUE,
                  dfs |-> SetKey(frames, result_name,
                                 new_with_columns(result_name, result_df))]
             Result(r) ==
                 Register(node.targets[1].id,
                          IF ~r.returned.none THEN r.returned.v ELSE r.updated)
             Handle(tracker) ==
                 Result(DFMethod(node.value.func.attr, DOMAIN tracker.columns,
                                 node.value.args, node.value.keywords))
         IN  Handle(frames[node.value.func.value.id])

\* for col_name in col_names: tracker.try_add(col_name, depends_on=...)
RECURSIVE AddAll(_, _, _)
AddAll(tracker, col_names, depends_on) ==
    IF col_names = <<>> THEN tracker
    ELSE AddAll(try_add(tracker, Head(col_names), depends_on).t, Tail(col_names), depends_on)

\* a search for an undeclared frame that finds none
FirstUndeclared_None(read_refs, frames) == None

\* the first ref of read_refs whose frame is not in dfs, or None
RECURSIVE FirstUndeclared(_, _)
FirstUndeclared(read_refs, frames) ==
    IF read_refs = <<>> THEN None
    ELSE IF Head(read_refs).df_name \notin DOMAIN frames THEN Some(Head(read_refs))
    ELSE FirstUndeclared(Tail(read_refs), frames)

\* read_cols = [r.col_names[0] for r in read_refs]
ReadCols(read_refs) == [i \in 1..Len(read_refs) |-> read_refs[i].col_names[1]]

\* the column-assignment part of visit_Assign (checker.py 312-362), from
\* the state st = [dfs, diagnostics, skip]; target_path is the identity of
\* node.targets[0]; value_refs is what Extractor.extract(node.value) returns
\* when line 326 calls it
ColumnAssignWith(node, target_path, st, value_refs) ==
    LET \* Extractor.extract has been called (checker.py 326)
        Extracted_(r) == [r EXCEPT !.extracted = TRUE]
        \* checker.py 340-362
        Validate(target_ref, tracker, read_refs, read_cols, first, marked) ==
            IF TruthyList(first.ret) THEN
                [st EXCEPT
                    !.diagnostics = Append(@,
                        wrong_assignment(target_ref.col_names, first.ret.v,
                                         target_ref.node, target_ref.df_name,
                                         DOMAIN tracker.columns)),
                    !.skip = marked]
            ELSE
                [st EXCEPT
                    !.dfs = SetKey(@, target_ref.df_name,
                                   AddAll(first.t, Tail(target_ref.col_names),
                                          DepList(read_cols))),
                    !.skip = marked]
        WithCols(target_ref, tracker, read_refs, read_cols) ==
            Validate(target_ref, tracker, read_refs, read_cols,
                     try_add(tracker, target_ref.col_names[1], DepList(read_cols)),
                     st.skip \cup {target_ref.node}
                         \cup {read_refs[i].node : i \in 1..Len(read_refs)})
        \* checker.py 334-338
        Declared(target_ref, tracker, read_refs, undeclared) ==
            IF ~undeclared.none THEN
                [st EXCEPT !.diagnostics =
                    Append(@, df_is_not_declared(undeclared.v.node, undeclared.v.df_name))]
            ELSE WithCols(target_ref, tracker, read_refs, ReadCols(read_refs))
        \* checker.py 326-332
        WithRefs(target_ref, tracker, read_refs) ==
            IF read_refs.none THEN
                [st EXCEPT
                    !.dfs = SetKey(@, target_ref.df_name,
                                   AddAll(tracker, target_ref.col_names, None)),
                    !.skip = @ \cup {target_ref.node}]
            ELSE Declared(target_ref, tracker, read_refs.v,
                          FirstUndeclared(read_refs.v, st.dfs))
        \* checker.py 316-324
        WithTarget(target_ref) ==
            IF target_ref.none THEN st
            ELSE IF target_ref.v.df_name \notin DOMAIN st.dfs THEN
                [st EXCEPT !.diagnostics =
                    Append(@, df_is_not_declared(target_ref.v.node, target_ref.v.df_name))]
            ELSE Extracted_(WithRefs(target_ref.v, st.dfs[target_ref.v.df_name],
                                     value_refs))
    IN  IF Len(node.targets) # 1 THEN st
        ELSE WithTarget(extract_single_column_ref(node.targets[1], target_path))

\* the column-assignment part of visit_Assign with no other thread in the
\* registry; value_path is the identity of node.value
ColumnAssign(node, target_path, value_path, st) ==
    ColumnAssignWith(node, target_path, st, extract(node.value, value_path))

\* visit_Assign up to its generic_visit: the checker's dfs, definitions,
\* diagnostics and skip set after the statement at path; value_refs is what
\* Extractor.extract(node.value) returns when line 326 calls it
visit_AssignWith(node, path, aliases, defs, frames, diags, skip, value_refs) ==
    LET Columns(st1) ==
            [dfs |-> st1.dfs,
             definitions |->
                IF Len(node.targets) = 1 /\ is_name(node.targets[1])
                THEN SetKey(defs, node.targets[1].id, get_result(node.value, defs))
                ELSE defs,
             diagnostics |-> st1.diagnostics, skip |-> st1.skip,
             extracted |-> st1.extracted]
        Method(method) ==
            IF method.ok THEN
                [dfs |-> method.dfs, definitions |-> defs, diagnostics |-> diags,
                 skip |-> skip, extracted |-> FALSE]
            ELSE Columns(ColumnAssignWith(node, Append(path, 1),
                                          [dfs |-> frames, diagnostics |-> diags,
                                           skip |-> skip, extracted |-> FALSE],
                                          value_refs))
        Create(created) ==
            IF created.ok THEN
                [dfs |-> created.dfs, definitions |-> defs, diagnostics |-> diags,
                 skip |-> skip, extracted |-> FALSE]
            ELSE Method(_try_dataframe_method(node, defs, frames))
    IN  Create(_try_create_dataframe(node, aliases, defs, frames))

\* visit_Assign with no other thread in the registry
visit_Assign(node, path, aliases, defs, frames, diags, skip) ==
    visit_AssignWith(node, path, aliases, defs, frames, diags, skip,
                     extract(node.value, Append(path, Len(node.targets) + 1)))

\* the names visit_Import adds: alias.asname or alias.name of each pandas alias
ImportedAliases(node) ==
    {IF node.names[i].asname # NoAsname THEN node.names[i].asname ELSE node.names[i].name :
        i \in {j \in 1..Len(node.names) : node.names[j].name = "pandas"}}

\* visit_Subscript up to its generic_visit: dfs and diagnostics afterwards
visit_Subscript(node, path, frames, diags, skip) ==
    LET same == [dfs |-> frames, diagnostics |-> diags]
        Read(ref, tracker, got) ==
            [dfs |-> SetKey(frames, ref.df_name, got.t),
             diagnostics |->
                IF TruthyStr(got.ret)
                THEN Append(diags, wrong_read(got.ret.v, ref.node, ref.df_name,
                                              DOMAIN tracker.columns))
                ELSE diags]
        Tracked(ref, tracker) == Read(ref, tracker, try_get(tracker, ref.col_names[1]))
        WithRef(ref) ==
            IF ref.none THEN same
            ELSE IF ref.v.df_name \notin DOMAIN frames THEN same
            ELSE IF Len(ref.v.col_names) # 1 THEN same
            ELSE Tracked(ref.v, frames[ref.v.df_name])
    IN  IF path \in skip THEN same
        ELSE WithRef(extract_single_column_ref(node, path))

-----------------------------------------------------------------------------
(* The visitor as a state machine: a statement's handler runs, then the    *)
(* Subscript nodes below the statement are visited in order, then the next *)
(* statement's handler runs.                                               *)

AtStatement == pending = <<>> /\ pc < Len(src)

\* Checker.visit_Import
VisitImport ==
    /\ AtStatement
    /\ src[pc + 1].k = "Import"
    /\ pandas_aliases' = pandas_aliases \cup ImportedAliases(src[pc + 1])
    /\ pc' = pc + 1
    /\ pending' = generic_visit(src[pc + 1], <<pc + 1>>)
    /\ UNCHANGED <<src, skip_subscripts, diagnostics, dfs, definitions, trk, ret,
                   registryVars, called, thr, _instances>>

\* Checker.visit_Assign
VisitAssign ==
    /\ AtStatement
    /\ src[pc + 1].k = "Assign"
    /\ \E r \in {visit_Assign(src[pc + 1], <<pc + 1>>, pandas_aliases, definitions,
                                dfs, diagnostics, skip_subscripts)} :
           /\ dfs' = r.dfs
           /\ definitions' = r.definitions
           /\ diagnostics' = r.diagnostics
           /\ skip_subscripts' = r.skip
           \* Extractor._ensure_sorted, when the handler reached Extractor.extract
           /\ _registry' = IF r.extracted /\ ~_sorted THEN SortByPriority(_registry)
                           ELSE _registry
           /\ _sorted' = (_sorted \/ r.extracted)
    /\ pc' = pc + 1
    /\ pending' = generic_visit(src[pc + 1], <<pc + 1>>)
    /\ UNCHANGED <<src, pandas_aliases, trk, ret, called, thr, _instances>>

\* NodeVisitor.generic_visit of an expression statement (no visit_Expr)
VisitExpr ==
    /\ AtStatement
    /\ src[pc + 1].k = "Expr"
    /\ pc' = pc + 1
    /\ pending' = generic_visit(src[pc + 1], <<pc + 1>>)
    /\ UNCHANGED <<src, skip_subscripts, diagnostics, dfs, pandas_aliases,
                   definitions, trk, ret, registryVars, called, thr,
                   _instances>>

\* Checker.visit_Subscript of the next Subscript node of the statement
VisitSubscript ==
    /\ pending # <<>>
    /\ \E r \in {visit_Subscript(Head(pending).node, Head(pending).id, dfs,
                                   diagnostics, skip_subscripts)} :
           /\ dfs' = r.dfs
           /\ diagnostics' = r.diagnostics
    /\ pending' = Tail(pending)
    /\ UNCHANGED <<src, pc, skip_subscripts, pandas_aliases, definitions, trk, ret,
                   registryVars, called, thr, _instances>>

-----------------------------------------------------------------------------
(* The Tracker driven through its API.  ret records the last call and what *)
(* it returned.                                                            *)

TrackerCols == {"A", "B"}
MaxDeps == 2

SeqsUpTo(S, n) == UNION {[1..m -> S] : m \in 0..n}

DependsOn ==
    {None} \cup {DepStr(c) : c \in TrackerCols}
           \cup {DepList(l) : l \in SeqsUpTo(TrackerCols, MaxDeps)}

\* tracker.try_get(column)
TryGet(column) ==
    /\ \E r \in {try_get(trk, column)} :
           /\ trk' = r.t
           /\ ret' = [op |-> "try_get", column |-> column, depends_on |-> None,
                      ret |-> r.ret]
    /\ UNCHANGED <<checkerVars, registryVars, called, thr, _instances>>

\* tracker.try_add(column, depends_on=depends_on)
TryAdd(column, depends_on) ==
    /\ \E r \in {try_add(trk, column, depends_on)} :
           /\ trk' = r.t
           /\ ret' = [op |-> "try_add", column |-> column, depends_on |-> depends_on,
                      ret |-> r.ret]
    /\ UNCHANGED <<checkerVars, registryVars, called, thr, _instances>>

NoCall == [op |-> "none", column |-> "", depends_on |-> None, ret |-> None]

\* no thread is inside Extractor.extract
NoThreads == <<>>

\* Checker.__init__, with the registry as the imports of the package leave
\* it and a timeline without instances
CheckerInit ==
    /\ _registry = ImportRegistry
    /\ _sorted = FALSE
    /\ called = <<>>
    /\ thr = NoThreads
    /\ _instances = <<>>
    /\ pc = 0
    /\ pending = <<>>
    /\ skip_subscripts = {}
    /\ diagnostics = <<>>
    /\ dfs = EmptyMap
    /\ pandas_aliases = {}
    /\ definitions = EmptyMap

\* a tracker as Tracker(id_, mode) or Tracker.new_with_columns makes it
InitTracker ==
    /\ src = <<>>
    /\ CheckerInit
    /\ trk \in {Tracker("df", "strict"), Tracker("df", "relaxed")}
                \cup {new_with_columns("df", S) : S \in SUBSET TrackerCols}
    /\ ret = NoCall

NextTracker ==
    \/ \E column \in TrackerCols : TryGet(column)
    \/ \E column \in TrackerCols, depends_on \in DependsOn : TryAdd(column, depends_on)

SpecTracker == InitTracker /\ [][NextTracker]_vars

-----------------------------------------------------------------------------
(* Sources to check: a prelude followed by up to MaxBody statements of an  *)
(* alphabet.                                                               *)

Col(df, c) == Subscript(Name(df), Str(c))
MultiCol(df, cs) == Subscript(Name(df), List([i \in 1..Len(cs) |-> Str(cs[i])]))
Ones == List(<<Num("1")>>)
PdCall(func, args, keywords) == Call(Attribute(Name("pd"), func), args, keywords)
SetVar(name, value) == Assign(<<Name(name)>>, value)
SetCols(target, value) == Assign(<<target>>, value)

\* import pandas as pd
ImportPd == Import(<<alias("pandas", "pd")>>)
\* df = pd.DataFrame({"A": [1], "B": [1]})
CreateDf == SetVar("df", PdCall("DataFrame", <<Dict(<<Str("A"), Str("B")>>, <<Ones, Ones>>)>>, <<>>))

MaxBody == 2

Preludes == {<<>>, <<ImportPd, CreateDf>>}

Body == {
    Import(<<alias("numpy", "np"), alias("pandas", NoAsname)>>),
    ImportPd,
    CreateDf,
    \* df = pd.DataFrame({"B": [1]})
    SetVar("df", PdCall("DataFrame", <<Dict(<<Str("B")>>, <<Ones>>)>>, <<>>)),
    \* d2 = pd.DataFrame({"X": [1]})
    SetVar("d2", PdCall("DataFrame", <<Dict(<<Str("X")>>, <<Ones>>)>>, <<>>)),
    \* d2 = df.assign(C=[1])
    SetVar("d2", Call(Attribute(Name("df"), "assign"), <<>>, <<keyword("C", Ones)>>)),
    \* zz = {}
    SetVar("zz", Dict(<<>>, <<>>)),
    \* df["A"]
    Expr(Col("df", "A")),
    \* df["X"]
    Expr(Col("df", "X")),
    \* df[""]
    Expr(Col("df", "")),
    \* zz["A"]
    Expr(Col("zz", "A")),
    \* x = df["C"]
    SetVar("x", Col("df", "C")),
    \* df["C"] = df["A"] + df["B"]
    SetCols(Col("df", "C"), BinOp(Col("df", "A"), Col("df", "B"))),
    \* df["C"] = df["X"] + df["Y"]
    SetCols(Col("df", "C"), BinOp(Col("df", "X"), Col("df", "Y"))),
    \* df["C"] = df["C"]
    SetCols(Col("df", "C"), Col("df", "C")),
    \* df["C"] = df[["A", "X"]]
    SetCols(Col("df", "C"), MultiCol("df", <<"A", "X">>)),
    \* df["C"] = df[["A", "B"]]
    SetCols(Col("df", "C"), MultiCol("df", <<"A", "B">>)),
    \* df[["C", "D"]] = df["A"]
    SetCols(MultiCol("df", <<"C", "D">>), Col("df", "A")),
    \* df[["C", "D"]] = [[1], [1]]
    SetCols(MultiCol("df", <<"C", "D">>), List(<<Ones, Ones>>)),
    \* df["C"] = df["X"] + 1
    SetCols(Col("df", "C"), BinOp(Col("df", "X"), Num("1"))),
    \* df["C"] = zz["A"]
    SetCols(Col("df", "C"), Col("zz", "A")),
    \* zz["C"] = df["X"]
    SetCols(Col("zz", "C"), Col("df", "X")),
    \* zz["k"] = 1
    SetCols(Col("zz", "k"), Num("1")),
    \* df["C"] = d2["X"]
    SetCols(Col("df", "C"), Col("d2", "X"))
}

Sources == {p \o b : p \in Preludes, b \in SeqsUpTo(Body, MaxBody)}

\* Checker.check(code): a fresh Checker about to visit the parsed module
Init ==
    /\ src \in Sources
    /\ CheckerInit
    /\ trk = Tracker("df", "strict")
    /\ ret = NoCall

Next == VisitImport \/ VisitAssign \/ VisitExpr \/ VisitSubscript

Spec == Init /\ [][Next]_vars

-----------------------------------------------------------------------------
(* Sources that create frames: import pandas as pd, then up to MaxCreate   *)
(* statements that bind names and call the pandas constructors.            *)

ReadCsv(name, keywords) == SetVar(name, PdCall("read_csv", <<Str("f.csv")>>, keywords))

\* a = {"x": [1]}
SetA == SetVar("a", Dict(<<Str("x")>>, <<Ones>>))
\* b = a
BfromA == SetVar("b", Name("a"))
\* t = pd.DataFrame(b)
TfromB == SetVar("t", PdCall("DataFrame", <<Name("b")>>, <<>>))
\* s = pd.DataFrame(a)
SfromA == SetVar("s", PdCall("DataFrame", <<Name("a")>>, <<>>))
\* r1 = pd.read_csv("f.csv", usecols=["a", "b"])
CsvStrList == ReadCsv("r1", <<keyword("usecols", List(<<Str("a"), Str("b")>>))>>)
\* r2 = pd.read_csv("f.csv", usecols="a")
CsvStr == ReadCsv("r2", <<keyword("usecols", Str("a"))>>)
\* r3 = pd.read_csv("f.csv", usecols=[0, 1])
CsvIntList == ReadCsv("r3", <<keyword("usecols", List(<<Num("0"), Num("1")>>))>>)
\* r4 = pd.read_csv("f.csv", usecols=["a", 0])
CsvMixedList == ReadCsv("r4", <<keyword("usecols", List(<<Str("a"), Num("0")>>))>>)
\* r5 = pd.read_csv("f.csv", usecols=0)
CsvInt == ReadCsv("r5", <<keyword("usecols", Num("0"))>>)
\* r6 = pd.read_csv("f.csv")
CsvNoUsecols == ReadCsv("r6", <<>>)

MaxCreate == 3

CreateBody == {
    SetA, BfromA, TfromB, SfromA,
    CsvStrList, CsvStr, CsvIntList, CsvMixedList, CsvInt, CsvNoUsecols,
    \* t["x"]
    Expr(Col("t", "x")),
    \* r1["z"]
    Expr(Col("r1", "z"))
}

CreateSources == {<<ImportPd>> \o b : b \in SeqsUpTo(CreateBody, MaxCreate)}

InitCreate ==
    /\ src \in CreateSources
    /\ CheckerInit
    /\ trk = Tracker("df", "strict")
    /\ ret = NoCall

SpecCreate == InitCreate /\ [][Next]_vars

-----------------------------------------------------------------------------
(* What the properties below speak about, read off the source text alone.  *)

\* the statement whose handler runs next, and the one whose handler ran last
Cur == src[pc + 1]
Last == src[pc]

\* e is written frame["c"] or frame[["c1", ...]] with string constants
IsStrConst(e) == e.k = "Constant" /\ e.isstr
IsColRef(e) ==
    /\ e.k = "Subscript"
    /\ e.value.k = "Name"
    /\ \/ IsStrConst(e.slice)
       \/ /\ e.slice.k = "List"
          /\ e.slice.elts # <<>>
          /\ \A i \in 1..Len(e.slice.elts) : IsStrConst(e.slice.elts[i])

\* a column-bearing expression: a column reference, or binary operations
\* whose leaves are all column references
RECURSIVE IsColumnExpr(_)
IsColumnExpr(e) ==
    \/ IsColRef(e)
    \/ e.k = "BinOp" /\ IsColumnExpr(e.left) /\ IsColumnExpr(e.right)

\* the column names a column reference spells out
ColsOf(e) ==
    IF IsStrConst(e.slice) THEN {e.slice.value}
    ELSE {e.slice.elts[i].value : i \in 1..Len(e.slice.elts)}

\* the column names, frame names and node identities of the column
\* references of a column-bearing expression
RECURSIVE RhsCols(_), RhsFrames(_), RefPaths(_, _)
RhsCols(e) == IF e.k = "BinOp" THEN RhsCols(e.left) \cup RhsCols(e.right) ELSE ColsOf(e)
RhsFrames(e) ==
    IF e.k = "BinOp" THEN RhsFrames(e.left) \cup RhsFrames(e.right) ELSE {e.value.id}
RefPaths(e, path) ==
    IF e.k = "BinOp"
    THEN RefPaths(e.left, Append(path, 1)) \cup RefPaths(e.right, Append(path, 2))
    ELSE {path}

\* s is a column write frame[...] = rhs
ColumnWrite(s) == s.k = "Assign" /\ Len(s.targets) = 1 /\ IsColRef(s.targets[1])
Tgt(s) == s.targets[1].value.id

\* the handler of a column write on a tracked frame is about to run
AtTrackedWrite == AtStatement /\ ColumnWrite(Cur) /\ Tgt(Cur) \in DOMAIN dfs

\* ... and its rhs is column-bearing with every rhs frame tracked
AtRecognizedWrite ==
    /\ AtTrackedWrite
    /\ IsColumnExpr(Cur.value)
    /\ RhsFrames(Cur.value) \subseteq DOMAIN dfs

\* the step appended exactly one diagnostic, of this kind
EmitsOne(kind) ==
    /\ Len(diagnostics') = Len(diagnostics) + 1
    /\ SubSeq(diagnostics', 1, Len(diagnostics)) = diagnostics
    /\ diagnostics'[Len(diagnostics')].kind = kind
NewDiag == diagnostics'[Len(diagnostics')]

\* the source never imports pandas
NoPandasImport ==
    \A i \in 1..Len(src) :
        src[i].k = "Import" =>
            \A j \in 1..Len(src[i].names) : src[i].names[j].name # "pandas"

-----------------------------------------------------------------------------
(* Subscript reads                                                         *)

\* visit_Subscript is about to visit an unmarked read frame["c"]
AtUnmarkedRead ==
    /\ pending # <<>>
    /\ Head(pending).id \notin skip_subscripts
    /\ Head(pending).node.value.k = "Name"
    /\ IsStrConst(Head(pending).node.slice)
ReadFrame == Head(pending).node.value.id
ReadCol == Head(pending).node.slice.value
ReadMissing == ReadFrame \in DOMAIN dfs /\ ReadCol \notin DOMAIN dfs[ReadFrame].columns

\* C1: visiting an unmarked read tgt["c"] emits a missing-column diagnostic
\* (for c, on tgt) if and only if tgt is tracked and c is not among its
\* columns at that point; when tgt is not tracked nothing is emitted.
C1_ReadDiagnosticIffMissing ==
    [][AtUnmarkedRead =>
          /\ (EmitsOne("wrong_read") /\ NewDiag.cols = <<ReadCol>>
                  /\ NewDiag.df_name = ReadFrame)
             <=> ReadMissing
          /\ ~ReadMissing => diagnostics' = diagnostics]_vars

\* C1, for column names other than the empty string: the same equivalence
C1_NonEmptyNameReads ==
    [][(AtUnmarkedRead /\ ReadCol # "") =>
          /\ (EmitsOne("wrong_read") /\ NewDiag.cols = <<ReadCol>>
                  /\ NewDiag.df_name = ReadFrame)
             <=> ReadMissing
          /\ ~ReadMissing => diagnostics' = diagnostics]_vars

\* the read df[""] of a tracked frame without a column "" was visited and
\* nothing was reported
C1_EmptyNameReadSilent ==
    /\ pc >= 1
    /\ pending = <<>>
    /\ Last = Expr(Col("df", ""))
    /\ "df" \in DOMAIN dfs
    /\ "" \notin DOMAIN dfs["df"].columns
    /\ diagnostics = <<>>

-----------------------------------------------------------------------------
(* Column writes                                                           *)

TgtCols == DOMAIN dfs[Tgt(Cur)].columns
MissingRhsCols == RhsCols(Cur.value) \ TgtCols

\* every reference of the rhs names a single column
RECURSIVE SingleColumnRefs(_)
SingleColumnRefs(e) ==
    IF e.k = "BinOp" THEN SingleColumnRefs(e.left) /\ SingleColumnRefs(e.right)
    ELSE IsStrConst(e.slice)

\* C2: a column write on a tracked frame with a recognized rhs of which at
\* least one column is absent from the tracker emits exactly one
\* invalid-assignment diagnostic, which names every missing column, and
\* leaves the trackers unchanged.
C2_MissingDependencyRejected ==
    [][(AtRecognizedWrite /\ MissingRhsCols # {}) =>
          /\ EmitsOne("wrong_assignment")
          /\ SeqToSet(NewDiag.cols) = MissingRhsCols
          /\ dfs' = dfs]_vars

\* C2, for an rhs whose references are all single-column: the same
C2_SingleColumnRhsRejected ==
    [][(AtRecognizedWrite /\ SingleColumnRefs(Cur.value) /\ MissingRhsCols # {}) =>
          /\ EmitsOne("wrong_assignment")
          /\ SeqToSet(NewDiag.cols) = MissingRhsCols
          /\ dfs' = dfs]_vars

\* df["C"] = df[["A", "X"]] ran on the frame {A, B}: nothing was reported
\* and C was added
C2_MultiColumnRhsAccepted ==
    /\ pc = 3
    /\ SubSeq(src, 1, 2) = <<ImportPd, CreateDf>>
    /\ Last = SetCols(Col("df", "C"), MultiCol("df", <<"A", "X">>))
    /\ diagnostics = <<>>
    /\ DOMAIN dfs["df"].columns = {"A", "B", "C"}

\* the dependency sets the write is to leave on the target columns
DepsAfter(c) ==
    (IF c \in TgtCols THEN dfs[Tgt(Cur)].columns[c] ELSE {}) \cup RhsCols(Cur.value)

\* C3: a column write on a tracked frame with a recognized rhs whose columns
\* all exist emits no diagnostic, and afterwards every target column is in
\* the tracker with exactly the rhs column names added to its dependencies.
C3_WriteRecordsDependencies ==
    [][(AtRecognizedWrite /\ MissingRhsCols = {}) =>
          /\ diagnostics' = diagnostics
          /\ \A c \in ColsOf(Cur.targets[1]) :
                /\ c \in DOMAIN dfs'[Tgt(Cur)].columns
                /\ dfs'[Tgt(Cur)].columns[c] = DepsAfter(c)]_vars

\* C3, for an rhs whose references are all single-column: the same
C3_SingleColumnRhsRecorded ==
    [][(AtRecognizedWrite /\ SingleColumnRefs(Cur.value) /\ MissingRhsCols = {}) =>
          /\ diagnostics' = diagnostics
          /\ \A c \in ColsOf(Cur.targets[1]) :
                /\ c \in DOMAIN dfs'[Tgt(Cur)].columns
                /\ dfs'[Tgt(Cur)].columns[c] = DepsAfter(c)]_vars

\* df["C"] = df[["A", "B"]] ran on the frame {A, B}: C depends on A only
C3_MultiColumnRhsLosesDependency ==
    /\ pc = 3
    /\ SubSeq(src, 1, 2) = <<ImportPd, CreateDf>>
    /\ Last = SetCols(Col("df", "C"), MultiCol("df", <<"A", "B">>))
    /\ diagnostics = <<>>
    /\ dfs["df"].columns["C"] = {"A"}

\* the identities of the target node and of the recognized rhs column
\* references of the column write that is statement i
WriteRefs(i) ==
    {<<i, 1>>} \cup (IF IsColumnExpr(src[i].value) THEN RefPaths(src[i].value, <<i, 2>>)
                    ELSE {})

\* visit_Subscript is about to visit a reference of the column write whose
\* handler ran last
AtWriteRef ==
    /\ pending # <<>>
    /\ pc >= 1
    /\ ColumnWrite(Last)
    /\ Head(pending).id \in WriteRefs(pc)

\* C7: the target node and the recognized rhs column references of a column
\* write are marked as handled, and visiting them produces no diagnostic.
C7_WriteRefsHandledOnce ==
    [][AtWriteRef =>
          /\ Head(pending).id \in skip_subscripts
          /\ diagnostics' = diagnostics]_vars

\* C7, for a write whose target frame and rhs frames are all tracked: the same
C7_DeclaredWriteRefsHandledOnce ==
    [][(AtWriteRef /\ Tgt(Last) \in DOMAIN dfs
           /\ (IsColumnExpr(Last.value) => RhsFrames(Last.value) \subseteq DOMAIN dfs)) =>
          /\ Head(pending).id \in skip_subscripts
          /\ diagnostics' = diagnostics]_vars

\* df["C"] = zz["A"] ran on the frame {A, B} with zz undeclared: the target
\* df["C"] was then reported as a read of a missing column
C7_TargetReportedAsRead ==
    /\ pc = 3
    /\ SubSeq(src, 1, 2) = <<ImportPd, CreateDf>>
    /\ Last = SetCols(Col("df", "C"), Col("zz", "A"))
    /\ Len(diagnostics) = 2
    /\ diagnostics[1].kind = "df_is_not_declared"
    /\ diagnostics[2].kind = "wrong_read"
    /\ diagnostics[2].region = <<3, 1>>
    /\ diagnostics[2].cols = <<"C">>

\* the tracker columns an unrecognized write is to leave: the target columns
\* added with no dependencies, everything else as it was
ColsWithTargets ==
    [c \in TgtCols \cup ColsOf(Cur.targets[1]) |->
        IF c \in TgtCols THEN dfs[Tgt(Cur)].columns[c] ELSE {}]

\* C8: a column write on a tracked frame whose rhs is not a column-bearing
\* expression succeeds: every target column is added to the tracker without
\* dependencies, nothing else changes and no diagnostic is emitted.
C8_UnrecognizedRhsAddsTargets ==
    [][(AtTrackedWrite /\ ~IsColumnExpr(Cur.value)) =>
          /\ diagnostics' = diagnostics
          /\ dfs' = [dfs EXCEPT ![Tgt(Cur)].columns = ColsWithTargets]]_vars

\* df["C"] = df["X"] + 1 ran on the frame {A, B}: C was added without
\* dependencies and nothing was reported by the write
C8_BinOpWithConstantLeafAdded ==
    /\ pc = 3
    /\ SubSeq(src, 1, 2) = <<ImportPd, CreateDf>>
    /\ Last = SetCols(Col("df", "C"), BinOp(Col("df", "X"), Num("1")))
    /\ pending # <<>>
    /\ Head(pending).id = <<3, 1>>
    /\ diagnostics = <<>>
    /\ DOMAIN dfs["df"].columns = {"A", "B", "C"}
    /\ dfs["df"].columns["C"] = {}

-----------------------------------------------------------------------------
(* Trackers over the run                                                   *)

\* the handler about to run re-binds the name n by a call assignment
\* n = f(...): the statements _try_create_dataframe and
\* _try_dataframe_method take
Rebinds(n) ==
    /\ AtStatement
    /\ Cur.k = "Assign"
    /\ Len(Cur.targets) = 1
    /\ is_name(Cur.targets[1])
    /\ Cur.targets[1].id = n
    /\ Cur.value.k = "Call"

C6_NoPandasNoOutput ==
    NoPandasImport => (diagnostics = <<>> /\ dfs = EmptyMap)

\* C6, the frames alone: without a pandas import no frame is registered
C6_NoPandasNoFrame ==
    NoPandasImport => dfs = EmptyMap

\* zz["k"] = 1 alone was checked: an undeclared-frame diagnostic for zz
C6_PlainSubscriptWriteReported ==
    /\ src = <<SetCols(Col("zz", "k"), Num("1"))>>
    /\ pc = 1
    /\ Len(diagnostics) = 1
    /\ diagnostics[1].kind = "df_is_not_declared"
    /\ diagnostics[1].df_name = "zz"

-----------------------------------------------------------------------------
(* The tracker API                                                         *)

\* depends_on as the list of names it gives
DepSeq(d) == IF d.isstr THEN <<d.s>> ELSE d.l
Absent(deps) == SelectSeq(deps, LAMBDA d : d \notin DOMAIN trk.columns)

\* C4: on a strict tracker, try_add(col, deps) with a dep absent returns the
\* absent deps and leaves the tracker as it was; with every dep present it
\* returns None and leaves col in the map with deps added to its
\* dependencies and every other column as it was; try_get of an absent
\* column returns its name and leaves the tracker as it was.
C4_StrictOperationsAtomic ==
    [][_is_strict(trk) =>
          /\ (ret'.op = "try_add" /\ ~ret'.depends_on.none) =>
                IF Absent(DepSeq(ret'.depends_on)) # <<>>
                THEN /\ ret'.ret = Some(Absent(DepSeq(ret'.depends_on)))
                     /\ trk' = trk
                ELSE /\ ret'.ret = None
                     /\ trk' = [trk EXCEPT !.columns =
                            [c \in DOMAIN trk.columns \cup {ret'.column} |->
                                IF c = ret'.column
                                THEN (IF c \in DOMAIN trk.columns THEN trk.columns[c]
                                      ELSE {})
                                     \cup SeqToSet(DepSeq(ret'.depends_on))
                                ELSE trk.columns[c]]]
          /\ (ret'.op = "try_get" /\ ret'.column \notin DOMAIN trk.columns) =>
                /\ ret'.ret = Some(ret'.column)
                /\ trk' = trk]_vars

\* a strict tracker holding A alone has just refused try_add("A", ["A", "B"])
\* and reported B
C4_FailedAddLeftTracker ==
    /\ _is_strict(trk)
    /\ DOMAIN trk.columns = {"A"}
    /\ ret.op = "try_add"
    /\ ret.depends_on = DepList(<<"A", "B">>)
    /\ ret.ret = Some(<<"B">>)

-----------------------------------------------------------------------------
(* Creating frames                                                         *)

\* statement k is t = pd.DataFrame(b), its handler has run, and before it
\* came a = {"x": [1]} and, after that, b = a
ChainBefore(k) ==
    /\ k \in 1..pc
    /\ src[k] = TfromB
    /\ \E i \in 1..k, j \in 1..k : i < j /\ src[i] = SetA /\ src[j] = BfromA
ChainDone == \E k \in 1..Len(src) : ChainBefore(k)

AtReadCsv ==
    /\ AtStatement
    /\ Cur.k = "Assign"
    /\ Len(Cur.targets) = 1
    /\ is_name(Cur.targets[1])
    /\ IsNameAttrCall(Cur.value)
    /\ Cur.value.func.value.id \in pandas_aliases
    /\ Cur.value.func.attr = "read_csv"

\* the usecols keyword of the call is written as a string constant or as a
\* list of string constants
UsecolsAllStrings ==
    \E i \in 1..Len(Cur.value.keywords) :
        /\ Cur.value.keywords[i].arg = "usecols"
        /\ \/ IsStrConst(Cur.value.keywords[i].value)
           \/ /\ Cur.value.keywords[i].value.k = "List"
              /\ \A j \in 1..Len(Cur.value.keywords[i].value.elts) :
                    IsStrConst(Cur.value.keywords[i].value.elts[j])

\* usecols is a list one of whose elements is no string constant
UsecolsListWithNonString ==
    \E i \in 1..Len(Cur.value.keywords) :
        /\ Cur.value.keywords[i].arg = "usecols"
        /\ Cur.value.keywords[i].value.k = "List"
        /\ \E j \in 1..Len(Cur.value.keywords[i].value.elts) :
              ~IsStrConst(Cur.value.keywords[i].value.elts[j])

\* C10: x = pd.read_csv(..., usecols=U) registers a frame for x if U is a
\* string or a list of strings, and otherwise leaves the frames as they
\* were, with no tracker for x.
C10_ReadCsvOnlyStringUsecols ==
    [][AtReadCsv =>
          IF UsecolsAllStrings THEN Cur.targets[1].id \in DOMAIN dfs'
          ELSE dfs' = dfs /\ Cur.targets[1].id \notin DOMAIN dfs']_vars

\* C10, for calls whose usecols is no list with a non-string element: the same
C10_ReadCsvWithoutMixedLists ==
    [][(AtReadCsv /\ ~UsecolsListWithNonString) =>
          IF UsecolsAllStrings THEN Cur.targets[1].id \in DOMAIN dfs'
          ELSE dfs' = dfs /\ Cur.targets[1].id \notin DOMAIN dfs']_vars

\* r3 = pd.read_csv("f.csv", usecols=[0, 1]) ran: r3 is tracked, with no
\* columns
C10_IntegerListRegistered ==
    /\ src = <<ImportPd, CsvIntList>>
    /\ pc = 2
    /\ "r3" \in DOMAIN dfs
    /\ DOMAIN dfs["r3"].columns = {}

-----------------------------------------------------------------------------
(* Sources that call the DataFrame constructor: import pandas as pd, then  *)
(* up to MaxFrame statements.                                              *)

NewFrame(name, args, keywords) == SetVar(name, PdCall("DataFrame", args, keywords))

\* d = {"x": [1], "y": [1]}
SetD == SetVar("d", Dict(<<Str("x"), Str("y")>>, <<Ones, Ones>>))
\* k = "a"
SetK == SetVar("k", Str("a"))
\* f1 = pd.DataFrame({"A": [1], 1: [1]})
FrameMixedKeys == NewFrame("f1", <<Dict(<<Str("A"), Num("1")>>, <<Ones, Ones>>)>>, <<>>)
\* f2 = pd.DataFrame(d)
FrameFromName == NewFrame("f2", <<Name("d")>>, <<>>)
\* f3 = pd.DataFrame([{"A": [1]}, {"B": [1]}])
FrameDictList ==
    NewFrame("f3", <<List(<<Dict(<<Str("A")>>, <<Ones>>), Dict(<<Str("B")>>, <<Ones>>)>>)>>,
             <<>>)
\* f3 = pd.DataFrame([{"A": [1]}, 1])
FrameBrokenList ==
    NewFrame("f3", <<List(<<Dict(<<Str("A")>>, <<Ones>>), Num("1")>>)>>, <<>>)
\* f4 = pd.DataFrame([d, {k: [1]}])
FrameNamesInList ==
    NewFrame("f4", <<List(<<Name("d"), Dict(<<Name("k")>>, <<Ones>>)>>)>>, <<>>)
\* f5 = pd.DataFrame([])
FrameEmptyList == NewFrame("f5", <<List(<<>>)>>, <<>>)
\* f2 = pd.DataFrame("s")
FrameFromStr == NewFrame("f2", <<Str("s")>>, <<>>)
\* f6 = pd.DataFrame(columns=["A"])
FrameNoData == NewFrame("f6", <<>>, <<keyword("columns", List(<<Str("A")>>))>>)
\* f7 = pd.DataFrame(data={"A": [1]})
FrameDataKeyword == NewFrame("f7", <<>>, <<keyword("data", Dict(<<Str("A")>>, <<Ones>>))>>)

MaxFrame == 3

FrameBody == {
    SetD, SetK, FrameMixedKeys, FrameFromName, FrameDictList, FrameBrokenList,
    FrameNamesInList, FrameEmptyList, FrameFromStr, FrameNoData, FrameDataKeyword,
    \* f2["x"]
    Expr(Col("f2", "x")),
    \* f3["B"]
    Expr(Col("f3", "B"))
}

FrameSources == {<<ImportPd>> \o b : b \in SeqsUpTo(FrameBody, MaxFrame)}

InitFrame ==
    /\ src \in FrameSources
    /\ CheckerInit
    /\ trk = Tracker("df", "strict")
    /\ ret = NoCall

SpecFrame == InitFrame /\ [][Next]_vars

-----------------------------------------------------------------------------
(* The DataFrame constructor                                               *)

\* the handler of x = pd.DataFrame(...) is about to run with pd imported
AtDataFrameCall ==
    /\ AtStatement
    /\ Cur.k = "Assign"
    /\ Len(Cur.targets) = 1
    /\ is_name(Cur.targets[1])
    /\ IsNameAttrCall(Cur.value)
    /\ Cur.value.func.value.id \in pandas_aliases
    /\ Cur.value.func.attr = "DataFrame"

\* the expression given as data: the first positional argument, else the
\* keyword data, else nothing
NoData == [k |-> "NoData"]
DataArg(call) ==
    IF Len(call.args) >= 1 THEN call.args[1]
    ELSE IF \E i \in 1..Len(call.keywords) : call.keywords[i].arg = "data"
    THEN call.keywords[CHOOSE i \in 1..Len(call.keywords) :
                           call.keywords[i].arg = "data"].value
    ELSE NoData

\* e is a name bound to a value of type t
BoundTo(e, t) == e.k = "Name" /\ e.id \in DOMAIN definitions /\ definitions[e.id].t = t

\* e denotes a dict: a dict display, or a name bound to a dict
DenotesDict(e) == e.k = "Dict" \/ BoundTo(e, "dict")

\* the string keys of the dict e denotes: a key of a display counts when it
\* is a string constant or a name bound to a string
KeyStrings(e) ==
    IF e.k = "Dict"
    THEN {e.keys[i].value : i \in {j \in 1..Len(e.keys) : IsStrConst(e.keys[j])}}
         \cup {definitions[e.keys[i].id].s :
                   i \in {j \in 1..Len(e.keys) : BoundTo(e.keys[j], "str")}}
    ELSE {x.s : x \in {y \in DOMAIN definitions[e.id].m : y.t = "str"}}

\* e is a list display whose entries all denote dicts
DenotesDictList(e) ==
    e.k = "List" /\ \A i \in 1..Len(e.elts) : DenotesDict(e.elts[i])

\* the columns the constructor is to register for data, as a set of sets
\* holding the column set when a frame is to be registered
FrameColumns(data) ==
    IF DenotesDict(data) THEN {KeyStrings(data)}
    ELSE IF DenotesDictList(data)
    THEN {UNION {KeyStrings(data.elts[i]) : i \in 1..Len(data.elts)}}
    ELSE {}

\* C11: x = pd.DataFrame(data) registers for x a fresh strict tracker whose
\* columns are the string keys of data when data is a dict and the union of
\* the string keys of the entries when data is a list of dicts; in every
\* other case the frames stay as they were.
C11_DataFrameColumns ==
    [][AtDataFrameCall =>
          IF FrameColumns(DataArg(Cur.value)) = {} THEN dfs' = dfs
          ELSE \E cols \in FrameColumns(DataArg(Cur.value)) :
                  dfs' = SetKey(dfs, Cur.targets[1].id,
                                [id_ |-> Cur.targets[1].id, mode |-> "strict",
                                 columns |-> [c \in cols |-> {}]])]_vars

\* f4 = pd.DataFrame([d, {k: [1]}]) ran after d = {"x": [1], "y": [1]} and
\* k = "a": f4 has the columns x, y and a
C11_ListOfDictsRegistered ==
    /\ src = <<ImportPd, SetD, SetK, FrameNamesInList>>
    /\ pc = 4
    /\ DOMAIN dfs["f4"].columns = {"x", "y", "a"}

-----------------------------------------------------------------------------
(* Sources that call DataFrame methods: import pandas as pd and            *)
(* df = pd.DataFrame({"A": [1], "B": [1]}), then up to MaxMethod           *)
(* statements that call methods of frames.                                 *)

DfCall(df, method, args, keywords) == Call(Attribute(Name(df), method), args, keywords)
\* df.insert(0, "C", [1])
InsertC(df) == DfCall(df, "insert", <<Num("0"), Str("C"), Ones>>, <<>>)

MaxMethod == 2

MethodBody == {
    \* d2 = df.assign(C=[1])
    SetVar("d2", DfCall("df", "assign", <<>>, <<keyword("C", Ones)>>)),
    \* df = df.assign(C=[1], D=[1])
    SetVar("df", DfCall("df", "assign", <<>>, <<keyword("C", Ones), keyword("D", Ones)>>)),
    \* d2 = df.assign()
    SetVar("d2", DfCall("df", "assign", <<>>, <<>>)),
    \* d2 = df.assign(C=[1], **kw)
    SetVar("d2", DfCall("df", "assign", <<>>, <<keyword("C", Ones), keyword(NoArg, Name("kw"))>>)),
    \* d2 = d2.assign(Z=[1])
    SetVar("d2", DfCall("d2", "assign", <<>>, <<keyword("Z", Ones)>>)),
    \* d2 = df.insert(0, "C", [1])
    SetVar("d2", InsertC("df")),
    \* df = df.insert(0, "C", [1])
    SetVar("df", InsertC("df")),
    \* d2 = df.insert(0, column="E", value=[1])
    SetVar("d2", DfCall("df", "insert", <<Num("0")>>,
                        <<keyword("column", Str("E")), keyword("value", Ones)>>)),
    \* d2 = df.insert(0, c, [1])
    SetVar("d2", DfCall("df", "insert", <<Num("0"), Name("c"), Ones>>, <<>>)),
    \* d2 = df.insert(0, 1, [1], column="E")
    SetVar("d2", DfCall("df", "insert", <<Num("0"), Num("1"), Ones>>,
                        <<keyword("column", Str("E"))>>)),
    \* d2 = df.drop("A")
    SetVar("d2", DfCall("df", "drop", <<Str("A")>>, <<>>)),
    \* df.insert(0, "C", [1])
    Expr(InsertC("df")),
    \* df.insert(0, column="E", value=[1])
    Expr(DfCall("df", "insert", <<Num("0")>>,
                <<keyword("column", Str("E")), keyword("value", Ones)>>)),
    \* df["C"]
    Expr(Col("df", "C")),
    \* df["E"]
    Expr(Col("df", "E")),
    \* d2["C"]
    Expr(Col("d2", "C"))
}

MethodSources == {<<ImportPd, CreateDf>> \o b : b \in SeqsUpTo(MethodBody, MaxMethod)}

InitMethod ==
    /\ src \in MethodSources
    /\ CheckerInit
    /\ trk = Tracker("df", "strict")
    /\ ret = NoCall

SpecMethod == InitMethod /\ [][Next]_vars

-----------------------------------------------------------------------------
(* Methods of tracked frames                                               *)

\* a call y.m(...) of a registered method m on a tracked frame y
IsMethodCall(e) ==
    /\ IsNameAttrCall(e)
    /\ e.func.value.id \in DOMAIN dfs
    /\ e.func.attr \in {"assign", "insert"}

\* the handler of x = y.m(...) is about to run
AtMethodAssign ==
    /\ AtStatement
    /\ Cur.k = "Assign"
    /\ Len(Cur.targets) = 1
    /\ is_name(Cur.targets[1])
    /\ IsMethodCall(Cur.value)

\* the names of the keyword arguments of a call
KeywordNames(call) ==
    {call.keywords[i].arg : i \in 1..Len(call.keywords)} \ {NoArg}

\* the column an insert call names with a string constant: the second
\* positional argument, else the keyword "column"
InsertedColumn(call) ==
    IF Len(call.args) >= 2 /\ IsStrConst(call.args[2]) THEN {call.args[2].value}
    ELSE {call.keywords[i].value.value :
            i \in {j \in 1..Len(call.keywords) :
                     /\ call.keywords[j].arg = "column"
                     /\ IsStrConst(call.keywords[j].value)}}

\* the columns of the frame a method call evaluates to
MethodColumns(call) ==
    DOMAIN dfs[call.func.value.id].columns
        \cup (IF call.func.attr = "assign" THEN KeywordNames(call)
              ELSE InsertedColumn(call))

\* C12: the assignment x = y.m(...) of a registered method m of a tracked
\* frame y replaces x's tracker by a strict tracker that holds y's columns
\* and the columns the call adds (for assign the keyword names), and changes
\* no other tracker, so y keeps its tracker when x is a different name.
C12_MethodAssignReplacesTarget ==
    [][AtMethodAssign =>
          dfs' = SetKey(dfs, Cur.targets[1].id,
                        [id_ |-> Cur.targets[1].id, mode |-> "strict",
                         columns |-> [c \in MethodColumns(Cur.value) |-> {}]])]_vars

\* d2 = df.assign(C=[1]) has been handled: d2 holds A, B and C, df holds A
\* and B
C12_AssignCreatedSecondFrame ==
    /\ Len(src) = 3
    /\ src[3] = SetVar("d2", DfCall("df", "assign", <<>>, <<keyword("C", Ones)>>))
    /\ pc = 3
    /\ "d2" \in DOMAIN dfs
    /\ DOMAIN dfs["d2"].columns = {"A", "B", "C"}
    /\ DOMAIN dfs["df"].columns = {"A", "B"}

\* the statement about to be handled calls insert on a tracked frame and
\* names the column with a string constant
AtInsertCall ==
    /\ AtStatement
    /\ Cur.k \in {"Expr", "Assign"}
    /\ IsMethodCall(Cur.value)
    /\ Cur.value.func.attr = "insert"
    /\ InsertedColumn(Cur.value) # {}

\* C13: once the statement that calls y.insert(loc, c, value) with a string
\* constant c on a tracked frame y has been handled, y's tracker holds c.
C13_InsertAddsColumn ==
    [][AtInsertCall =>
          /\ Cur.value.func.value.id \in DOMAIN dfs'
          /\ InsertedColumn(Cur.value)
                 \subseteq DOMAIN dfs'[Cur.value.func.value.id].columns]_vars

\* df.insert(0, "C", [1]) followed by the read df["C"] has been checked: the
\* tracker of df does not hold C and the read is reported as a missing column
C13_InsertedColumnReportedMissing ==
    /\ src = <<ImportPd, CreateDf, Expr(InsertC("df")), Expr(Col("df", "C"))>>
    /\ pc = 4
    /\ pending = <<>>
    /\ "C" \notin DOMAIN dfs["df"].columns
    /\ Len(diagnostics) = 1
    /\ diagnostics[1].kind = "wrong_read"
    /\ diagnostics[1].cols = <<"C">>

-----------------------------------------------------------------------------
(* Column writes that name undeclared frames                               *)

\* s is a column write whose target frame, or a frame of its recognized rhs,
\* is not tracked
NamesUndeclared(s) ==
    /\ ColumnWrite(s)
    /\ \/ Tgt(s) \notin DOMAIN dfs
       \/ IsColumnExpr(s.value) /\ ~(RhsFrames(s.value) \subseteq DOMAIN dfs)

\* the undeclared-frame diagnostics of a list
UndeclaredDiags(ds) == SelectSeq(ds, LAMBDA d : d.kind = "df_is_not_declared")

\* C14: the handler of a column write that names an undeclared frame emits
\* exactly one undeclared-frame diagnostic, for a frame without a tracker,
\* and leaves dfs as it was; the visits of the statement's subscripts add no
\* further undeclared-frame diagnostic and leave dfs as it was too.
C14_UndeclaredFrameReportedOnce ==
    [][/\ (AtStatement /\ NamesUndeclared(Cur)) =>
             /\ EmitsOne("df_is_not_declared")
             /\ NewDiag.df_name \notin DOMAIN dfs
             /\ NewDiag.df_name \in {Tgt(Cur)} \cup
                    (IF IsColumnExpr(Cur.value) THEN RhsFrames(Cur.value) ELSE {})
             /\ dfs' = dfs
       /\ (pending # <<>> /\ pc >= 1 /\ NamesUndeclared(Last)) =>
             /\ UndeclaredDiags(diagnostics') = UndeclaredDiags(diagnostics)
             /\ dfs' = dfs]_vars

\* a write to df whose rhs names zz has been checked on the frame {A, B}
\* with zz undeclared: one undeclared-frame diagnostic, for zz, and no tracker changed
C14_UndeclaredRhsReported ==
    /\ pc = 3
    /\ pending = <<>>
    /\ SubSeq(src, 1, 2) = <<ImportPd, CreateDf>>
    /\ ColumnWrite(Last)
    /\ Tgt(Last) = "df"
    /\ IsColumnExpr(Last.value)
    /\ "zz" \in RhsFrames(Last.value)
    /\ Len(UndeclaredDiags(diagnostics)) = 1
    /\ UndeclaredDiags(diagnostics)[1].df_name = "zz"
    /\ DOMAIN dfs = {"df"}
    /\ DOMAIN dfs["df"].columns = {"A", "B"}

-----------------------------------------------------------------------------
(* The extractors called on their own: the expression is the value of the  *)
(* only statement of src, a tree of binary operations with up to MaxLeaves *)
(* leaves.                                                                 *)

MaxLeaves == 3

Leaves == {
    Col("df", "A"),
    Col("d2", "B"),
    Col("df", ""),
    MultiCol("df", <<"A", "B">>),
    \* df[[]]
    Subscript(Name("df"), List(<<>>)),
    \* df[["A", 1]]
    Subscript(Name("df"), List(<<Str("A"), Num("1")>>)),
    \* df[0]
    Subscript(Name("df"), Num("0")),
    \* x.df["A"]
    Subscript(Attribute(Name("x"), "df"), Str("A")),
    Num("1")
}

\* the shapes of the trees of binary operations with n leaves
RECURSIVE ShapesOf(_)
ShapesOf(n) ==
    IF n = 1 THEN {[n |-> 1]}
    ELSE UNION {{[n |-> n, left |-> l, right |-> r] : l \in ShapesOf(i), r \in ShapesOf(n - i)} :
                   i \in 1..(n - 1)}

\* the tree of a shape whose leaves are ls[from], ls[from + 1], ...
RECURSIVE TreeOf(_, _, _)
TreeOf(shape, ls, from) ==
    IF shape.n = 1 THEN ls[from]
    ELSE BinOp(TreeOf(shape.left, ls, from), TreeOf(shape.right, ls, from + shape.left.n))

Tree == src[1].value
TreePath == <<1, 1>>

Extracted(op, r) == [op |-> op, column |-> "", depends_on |-> None, ret |-> r]

\* extract_column_ref(node)
ExtractColumnRef ==
    /\ ret' = Extracted("extract_column_ref", extract_column_ref(Tree, TreePath))
    /\ UNCHANGED <<checkerVars, trk, registryVars, called, thr, _instances>>

\* extract_column_refs_from_binop(node)
ExtractBinop ==
    /\ ret' = Extracted("extract_column_refs_from_binop",
                        extract_column_refs_from_binop(Tree, TreePath))
    /\ UNCHANGED <<checkerVars, trk, registryVars, called, thr, _instances>>

\* Extractor.extract(node)
ExtractorExtract ==
    /\ ret' = Extracted("extract", extract(Tree, TreePath))
    /\ UNCHANGED <<checkerVars, trk, registryVars, called, thr, _instances>>

\* extract_value_refs(node)
ExtractValueRefs ==
    /\ ret' = Extracted("extract_value_refs", extract_value_refs(Tree, TreePath))
    /\ UNCHANGED <<checkerVars, trk, registryVars, called, thr, _instances>>

InitExtract ==
    /\ \E n \in 1..MaxLeaves : \E shape \in ShapesOf(n) : \E ls \in [1..n -> Leaves] :
           src = <<Expr(TreeOf(shape, ls, 1))>>
    /\ CheckerInit
    /\ trk = Tracker("df", "strict")
    /\ ret = NoCall

NextExtract == ExtractColumnRef \/ ExtractBinop \/ ExtractorExtract \/ ExtractValueRefs

SpecExtract == InitExtract /\ [][NextExtract]_vars

-----------------------------------------------------------------------------
(* What the extractors return                                              *)

\* C15: the column extractor, the binop extractor and Extractor.extract
\* return None or a list that is not empty and whose members are column
\* references that each name at least one column.
C15_ExtractorsNeverReturnEmptyList ==
    ret.op \in {"extract_column_ref", "extract_column_refs_from_binop", "extract"} =>
        \/ ret.ret = None
        \/ /\ ~ret.ret.none
           /\ Len(ret.ret.v) >= 1
           /\ \A i \in 1..Len(ret.ret.v) :
                 /\ DOMAIN ret.ret.v[i] = {"node", "df_name", "col_names"}
                 /\ Len(ret.ret.v[i].col_names) >= 1

\* extract_column_ref was called on df[[]] and returned None
C15_EmptyNameListGivesNone ==
    /\ Tree = Subscript(Name("df"), List(<<>>))
    /\ ret.op = "extract_column_ref"
    /\ ret.ret = None

\* the leaves of a tree of binary operations, each with its identity
RECURSIVE LeavesOf(_, _)
LeavesOf(e, path) ==
    IF e.k = "BinOp"
    THEN LeavesOf(e.left, Append(path, 1)) \cup LeavesOf(e.right, Append(path, 2))
    ELSE {[id |-> path, node |-> e]}

\* the column names of a column reference, in order
NamesOf(e) ==
    IF IsStrConst(e.slice) THEN <<e.slice.value>>
    ELSE [i \in 1..Len(e.slice.elts) |-> e.slice.elts[i].value]

\* C16: called on a tree of binary operations, the binop extractor,
\* Extractor.extract and extract_value_refs return None exactly when some
\* leaf is not a column reference, and otherwise a list with exactly one
\* reference per leaf, which names the leaf's frame and columns.
C16_BinOpAllOrNothing ==
    (/\ ret.op \in {"extract_column_refs_from_binop", "extract", "extract_value_refs"}
     /\ Tree.k = "BinOp") =>
        IF \E l \in LeavesOf(Tree, TreePath) : ~IsColRef(l.node)
        THEN ret.ret = None
        ELSE /\ ~ret.ret.none
             /\ Len(ret.ret.v) = Cardinality(LeavesOf(Tree, TreePath))
             /\ {ret.ret.v[i] : i \in 1..Len(ret.ret.v)} =
                    {ColumnRef(l.id, l.node.value.id, NamesOf(l.node)) :
                        l \in LeavesOf(Tree, TreePath)}

\* the binop extractor was called on (df["A"] + d2["B"]) + df[["A", "B"]]
\* and returned three references
C16_NestedTreeExtracted ==
    /\ Tree = BinOp(BinOp(Col("df", "A"), Col("d2", "B")), MultiCol("df", <<"A", "B">>))
    /\ ret.op = "extract_column_refs_from_binop"
    /\ ~ret.ret.none
    /\ Len(ret.ret.v) = 3

-----------------------------------------------------------------------------
(* extractors/registry.py: the Extractor registry driven through its API   *)
(* by one thread.  The expression to extract from is the value of the only *)
(* statement of src.                                                       *)

MaxRegistered == 3

Priorities == {10, 20}

\* the extractor functions: those of the package, and those of
\* tests/extractors/test_registry.py
ApplyFunc(func, node, path) ==
    CASE func = "extract_column_ref" -> extract_column_ref(node, path)
      [] func = "extract_column_refs_from_binop" -> extract_column_refs_from_binop(node, path)
      [] func = "ext_match" ->
            IF is_subscript(node) THEN Some(<<ColumnRef(path, "test", <<"col">>)>>) ELSE None
      [] func = "ext_other" ->
            IF is_subscript(node) THEN Some(<<ColumnRef(path, "other", <<"col">>)>>) ELSE None
      [] func = "ext_none" -> None

\* the (name, func) pairs register is called with
Registrations == {<<"a", "ext_match">>, <<"a", "ext_none">>, <<"b", "ext_other">>}

RegistryNodes == {Col("df", "A"), Num("1")}

\* Extractor._ensure_sorted
_ensure_sorted(registry, sorted) ==
    IF ~sorted THEN [registry |-> SortByPriority(registry), sorted |-> TRUE]
    ELSE [registry |-> registry, sorted |-> sorted]

\* the for loop of Extractor.extract from entry i on: what it returns and the
\* entries whose func it called
RECURSIVE ExtractLoop(_, _, _, _)
ExtractLoop(registry, node, path, i) ==
    IF i > Len(registry) THEN [ret |-> None, called |-> <<>>]
    ELSE LET Try(refs) ==
                 IF TruthyList(refs) THEN [ret |-> refs, called |-> <<registry[i]>>]
                 ELSE LET Rest(r) == [ret |-> r.ret, called |-> <<registry[i]>> \o r.called]
                      IN  Rest(ExtractLoop(registry, node, path, i + 1))
         IN  Try(ApplyFunc(registry[i].func, node, path))

\* @Extractor.register(priority=priority, name=name) on func
Register(priority, name, func) ==
    /\ Len(_registry) < MaxRegistered
    /\ _registry' = Append(_registry, _RegisteredExtractor(priority, name, func))
    /\ _sorted' = FALSE
    /\ ret' = [op |-> "register", column |-> name, depends_on |-> None, ret |-> None]
    /\ called' = <<>>
    /\ UNCHANGED <<checkerVars, trk, thr, _instances>>

\* Extractor.unregister(name)
Unregister(name) ==
    /\ \E found \in {{i \in 1..Len(_registry) : _registry[i].name = name}} :
          IF found = {} THEN
              /\ ret' = [op |-> "unregister", column |-> name, depends_on |-> None,
                         ret |-> Some(FALSE)]
              /\ UNCHANGED _registry
          ELSE
              /\ \E i \in {CHOOSE j \in found : \A j2 \in found : j <= j2} :
                    _registry' = SubSeq(_registry, 1, i - 1)
                                     \o SubSeq(_registry, i + 1, Len(_registry))
              /\ ret' = [op |-> "unregister", column |-> name, depends_on |-> None,
                         ret |-> Some(TRUE)]
    /\ called' = <<>>
    /\ UNCHANGED <<checkerVars, trk, _sorted, thr, _instances>>

\* Extractor.clear()
Clear ==
    /\ _registry' = <<>>
    /\ _sorted' = TRUE
    /\ ret' = [op |-> "clear", column |-> "", depends_on |-> None, ret |-> None]
    /\ called' = <<>>
    /\ UNCHANGED <<checkerVars, trk, thr, _instances>>

\* Extractor.get_registered()
GetRegistered ==
    /\ \E r \in {_ensure_sorted(_registry, _sorted)} :
          /\ _registry' = r.registry
          /\ _sorted' = r.sorted
          /\ ret' = [op |-> "get_registered", column |-> "", depends_on |-> None,
                     ret |-> Some([i \in 1..Len(r.registry) |->
                                     <<r.registry[i].priority, r.registry[i].name,
                                       r.registry[i].func>>])]
    /\ called' = <<>>
    /\ UNCHANGED <<checkerVars, trk, thr, _instances>>

\* Extractor.extract(node)
Extract ==
    /\ \E r \in {_ensure_sorted(_registry, _sorted)} :
          /\ _registry' = r.registry
          /\ _sorted' = r.sorted
          /\ \E e \in {ExtractLoop(r.registry, Tree, TreePath, 1)} :
                /\ ret' = Extracted("extract", e.ret)
                /\ called' = e.called
    /\ UNCHANGED <<checkerVars, trk, thr, _instances>>

InitRegistry ==
    /\ src \in {<<Expr(t)>> : t \in RegistryNodes}
    /\ CheckerInit
    /\ trk = Tracker("df", "strict")
    /\ ret = NoCall

NextRegistry ==
    \/ \E priority \in Priorities, r \in Registrations : Register(priority, r[1], r[2])
    \/ \E name \in {"a", "b", "column_ref", "binop"} : Unregister(name)
    \/ Clear
    \/ GetRegistered
    \/ Extract

SpecRegistry == InitRegistry /\ [][NextRegistry]_vars

-----------------------------------------------------------------------------
(* The order in which Extractor.extract tries the extractors               *)

\* a and b hold the same entries the same number of times
SameEntries(a, b) ==
    /\ Len(a) = Len(b)
    /\ \A e \in SeqToSet(a) \cup SeqToSet(b) :
          Cardinality({i \in 1..Len(a) : a[i] = e})
              = Cardinality({i \in 1..Len(b) : b[i] = e})

\* the extractor of a registry entry matches the expression
Matches(e) == ~ApplyFunc(e.func, Tree, TreePath).none

\* C17: whatever register, unregister and clear calls came before, a call
\* of Extractor.extract calls registered extractors in non-decreasing
\* priority order, skipping none: it stops at the first one that matches and
\* returns its result, and returns None when it has called every registered
\* extractor and none matched (or none is registered).
C17_ExtractTriesInPriorityOrder ==
    [][ret'.op = "extract" =>
          /\ SameEntries(_registry', _registry)
          /\ \A i \in 1..(Len(_registry') - 1) :
                _registry'[i].priority <= _registry'[i + 1].priority
          /\ Len(called') <= Len(_registry')
          /\ called' = SubSeq(_registry', 1, Len(called'))
          /\ \A i \in 1..(Len(called') - 1) : ~Matches(called'[i])
          /\ IF \E i \in 1..Len(_registry) : Matches(_registry[i])
             THEN /\ called' # <<>>
                  /\ Matches(called'[Len(called')])
                  /\ ret'.ret = ApplyFunc(called'[Len(called')].func, Tree, TreePath)
             ELSE /\ called' = _registry'
                  /\ ret'.ret = None]_vars

\* extract ran on df["A"] over a registry that holds ext_none with priority
\* 10, ext_other with priority 10 and ext_match with priority 20: it called
\* the first two and returned the result of ext_other
C17_StoppedAtFirstMatch ==
    /\ Tree = Col("df", "A")
    /\ ret.op = "extract"
    /\ Len(_registry) = 3
    /\ _registry[3] = _RegisteredExtractor(20, "a", "ext_match")
    /\ called = <<_RegisteredExtractor(10, "a", "ext_none"),
                  _RegisteredExtractor(10, "b", "ext_other")>>
    /\ ret.ret = Some(<<ColumnRef(TreePath, "other", <<"col">>)>>)

-----------------------------------------------------------------------------
(* Where a node starts: models/region.py takes the start of a region from  *)
(* node.lineno and node.col_offset.  Statement i of src is line i, written *)
(* the way ast.unparse writes it.                                          *)

RECURSIVE Width(_), WidthSum(_, _)

\* the widths of the nodes of ns, each followed by sep more characters
WidthSum(ns, sep) ==
    IF ns = <<>> THEN 0 ELSE Width(Head(ns)) + sep + WidthSum(Tail(ns), sep)

\* the widths of the entries key: value (or **value) of a dict display, each
\* followed by ", "
RECURSIVE EntriesWidth(_, _)
EntriesWidth(keys, values) ==
    IF keys = <<>> THEN 0
    ELSE (IF Head(keys).k = "NoneKey" THEN 2 ELSE Width(Head(keys)) + 2)
             + Width(Head(values)) + 2 + EntriesWidth(Tail(keys), Tail(values))

\* the number of characters of a node
Width(n) ==
    CASE n.k = "Name" -> Len(n.id)
      [] n.k = "Constant" -> IF n.isstr THEN Len(n.value) + 2 ELSE Len(n.value)
      [] n.k = "Subscript" -> Width(n.value) + 1 + Width(n.slice) + 1
      [] n.k = "List" -> IF n.elts = <<>> THEN 2 ELSE WidthSum(n.elts, 2)
      [] n.k = "Dict" -> IF n.keys = <<>> THEN 2 ELSE EntriesWidth(n.keys, n.values)
      [] n.k = "BinOp" -> Width(n.left) + 3 + Width(n.right)
      [] n.k = "Attribute" -> Width(n.value) + 1 + Len(n.attr)
      [] n.k = "IfExp" -> Width(n.body) + 4 + Width(n.test) + 6 + Width(n.orelse)
      [] n.k = "keyword" -> (IF n.arg = NoArg THEN 2 ELSE Len(n.arg) + 1) + Width(n.value)
      [] n.k = "Call" ->
            IF n.args \o n.keywords = <<>> THEN Width(n.func) + 2
            ELSE Width(n.func) + WidthSum(n.args \o n.keywords, 2)
      [] n.k = "Assign" -> WidthSum(n.targets, 3) + Width(n.value)
      [] n.k = "Expr" -> Width(n.value)
      [] OTHER -> 0

\* where child i of n (in the order of Children) starts, counted from the
\* start of n
ChildOffset(n, i) ==
    CASE n.k = "Subscript" -> IF i = 1 THEN 0 ELSE Width(n.value) + 1
      [] n.k = "List" -> 1 + WidthSum(SubSeq(n.elts, 1, i - 1), 2)
      [] n.k = "Dict" ->
            IF i <= Len(n.keys)
            THEN 1 + EntriesWidth(SubSeq(n.keys, 1, i - 1), SubSeq(n.values, 1, i - 1))
            ELSE LET At(j) ==
                         1 + EntriesWidth(SubSeq(n.keys, 1, j - 1), SubSeq(n.values, 1, j - 1))
                           + (IF n.keys[j].k = "NoneKey" THEN 2 ELSE Width(n.keys[j]) + 2)
                 IN  At(i - Len(n.keys))
      [] n.k = "BinOp" -> IF i = 1 THEN 0 ELSE Width(n.left) + 3
      [] n.k = "IfExp" ->
            IF i = 1 THEN Width(n.body) + 4
            ELSE IF i = 2 THEN 0
            ELSE Width(n.body) + 4 + Width(n.test) + 6
      [] n.k = "keyword" -> IF n.arg = NoArg THEN 2 ELSE Len(n.arg) + 1
      [] n.k = "Call" ->
            IF i = 1 THEN 0
            ELSE Width(n.func) + 1 + WidthSum(SubSeq(n.args \o n.keywords, 1, i - 2), 2)
      [] n.k = "Assign" ->
            WidthSum(SubSeq(n.targets, 1, IF i <= Len(n.targets) THEN i - 1
                                          ELSE Len(n.targets)), 3)
      [] OTHER -> 0

\* node.col_offset of the node that path leads to from n
RECURSIVE col_offset(_, _)
col_offset(n, path) ==
    IF path = <<>> THEN 0
    ELSE ChildOffset(n, Head(path)) + col_offset(Children(n)[Head(path)], Tail(path))

\* CodeRegion.from_ast_node(node).start of the node with this identity
StartOf(id) == [row |-> id[1], col |-> col_offset(src[id[1]], Tail(id))]

-----------------------------------------------------------------------------
(* Sources whose statements hold several references: import pandas as pd   *)
(* and df = pd.DataFrame({"A": [1], "B": [1]}), then up to MaxOrder        *)
(* statements.                                                             *)

MaxOrder == 2

OrderBody == {
    Expr(Col("df", "X")),
    Expr(Col("df", "A")),
    \* df["X"] + df["Y"]
    Expr(BinOp(Col("df", "X"), Col("df", "Y"))),
    \* df["X"] if df["Y"].any() else 0
    Expr(IfExp(Call(Attribute(Col("df", "Y"), "any"), <<>>, <<>>), Col("df", "X"), Num("0"))),
    \* {"a": df["X"], "b": df["Y"]}
    Expr(Dict(<<Str("a"), Str("b")>>, <<Col("df", "X"), Col("df", "Y")>>)),
    \* f(df["X"], k=df["Y"])
    Expr(Call(Name("f"), <<Col("df", "X")>>, <<keyword("k", Col("df", "Y"))>>)),
    \* df["C"] = df["X"] + df["Y"]
    SetCols(Col("df", "C"), BinOp(Col("df", "X"), Col("df", "Y"))),
    \* df["C"] = df["X"] + 1
    SetCols(Col("df", "C"), BinOp(Col("df", "X"), Num("1"))),
    \* df["C"] = df["A"]
    SetCols(Col("df", "C"), Col("df", "A")),
    \* zz["C"] = df["X"]
    SetCols(Col("zz", "C"), Col("df", "X")),
    \* x = [df["X"], df["Y"]]
    SetVar("x", List(<<Col("df", "X"), Col("df", "Y")>>))
}

OrderSources == {<<ImportPd, CreateDf>> \o b : b \in SeqsUpTo(OrderBody, MaxOrder)}

InitOrder ==
    /\ src \in OrderSources
    /\ CheckerInit
    /\ trk = Tracker("df", "strict")
    /\ ret = NoCall

SpecOrder == InitOrder /\ [][Next]_vars

-----------------------------------------------------------------------------
(* The order of the diagnostics                                            *)

\* position p lies before position q
Before(p, q) == p.row < q.row \/ (p.row = q.row /\ p.col < q.col)

\* C18: the diagnostics are in source order: no diagnostic's region starts
\* before the region of the diagnostic that precedes it in the list.
C18_DiagnosticsInSourceOrder ==
    \A i \in 1..(Len(diagnostics) - 1) :
        ~Before(StartOf(diagnostics[i + 1].region), StartOf(diagnostics[i].region))

\* df["X"] if df["Y"].any() else 0 has been checked on the frame {A, B}: the
\* diagnostic for Y (column 11) comes before the diagnostic for X (column 0)
C18_ConditionReportedBeforeBody ==
    /\ Len(src) = 3
    /\ src[3] = Expr(IfExp(Call(Attribute(Col("df", "Y"), "any"), <<>>, <<>>),
                           Col("df", "X"), Num("0")))
    /\ pc = 3
    /\ pending = <<>>
    /\ Len(diagnostics) = 2
    /\ diagnostics[1].cols = <<"Y">>
    /\ StartOf(diagnostics[1].region) = [row |-> 3, col |-> 11]
    /\ diagnostics[2].cols = <<"X">>
    /\ StartOf(diagnostics[2].region) = [row |-> 3, col |-> 0]

-----------------------------------------------------------------------------
(* Checkers that run at the same time, one per thread.  Everything a       *)
(* checker keeps is its own; the registry of Extractor is shared.  A       *)
(* thread's source is import pandas as pd,                                 *)
(* df = pd.DataFrame({"A": [1], "B": [1]}) and one column write on df, so  *)
(* that its check calls Extractor.extract once (checker.py 326).  The      *)
(* steps of that call are taken one at a time.                             *)

MaxThreads == 2

\* the state of a checker: Checker.__init__
NewChecker ==
    [dfs |-> EmptyMap, definitions |-> EmptyMap, diagnostics |-> <<>>, skip |-> {},
     aliases |-> {}]

\* generic_visit below a statement: visit_Subscript of each Subscript node
RECURSIVE RunSubscripts(_, _)
RunSubscripts(subs, c) ==
    IF subs = <<>> THEN c
    ELSE LET Visited(r) ==
                 RunSubscripts(Tail(subs), [c EXCEPT !.dfs = r.dfs,
                                                     !.diagnostics = r.diagnostics])
         IN  Visited(visit_Subscript(Head(subs).node, Head(subs).id, c.dfs,
                                     c.diagnostics, c.skip))

\* NodeVisitor.visit of statement i; value_refs is what Extractor.extract
\* returns if the statement's handler calls it
RunStatement(node, i, c, value_refs) ==
    LET Handled(c1) == RunSubscripts(generic_visit(node, <<i>>), c1)
        Assigned(r) ==
            Handled([c EXCEPT !.dfs = r.dfs, !.definitions = r.definitions,
                              !.diagnostics = r.diagnostics, !.skip = r.skip])
    IN  IF node.k = "Import"
        THEN Handled([c EXCEPT !.aliases = @ \cup ImportedAliases(node)])
        ELSE IF node.k = "Assign"
        THEN Assigned(visit_AssignWith(node, <<i>>, c.aliases, c.definitions, c.dfs,
                                       c.diagnostics, c.skip, value_refs))
        ELSE Handled(c)

\* checker.visit(tree) from statement i on; last_refs is what
\* Extractor.extract returns to the handler of the last statement
RECURSIVE RunFrom(_, _, _, _)
RunFrom(stmts, i, c, last_refs) ==
    IF i > Len(stmts) THEN c
    ELSE RunFrom(stmts, i + 1,
                 RunStatement(stmts[i], i, c,
                              IF i = Len(stmts) THEN last_refs
                              ELSE extract(stmts[i].value, <<i, Len(stmts[i].targets) + 1>>)),
                 last_refs)

\* Checker.check(stmts).diagnostics when Extractor.extract returns last_refs
\* to the handler of the last statement
CheckWith(stmts, last_refs) == RunFrom(stmts, 1, NewChecker, last_refs).diagnostics

\* Checker.check(stmts).diagnostics with no other thread in the registry
CheckAlone(stmts) ==
    CheckWith(stmts, extract(stmts[Len(stmts)].value,
                             <<Len(stmts), Len(stmts[Len(stmts)].targets) + 1>>))

SharedWrites == {
    \* df["C"] = df["A"]
    SetCols(Col("df", "C"), Col("df", "A")),
    \* df["C"] = df["X"] + df["Y"]
    SetCols(Col("df", "C"), BinOp(Col("df", "X"), Col("df", "Y"))),
    \* df["C"] = df["A"] + 1
    SetCols(Col("df", "C"), BinOp(Col("df", "A"), Num("1"))),
    \* df["C"] = df["X"]
    SetCols(Col("df", "C"), Col("df", "X"))
}

SharedSources == {<<ImportPd, CreateDf, w>> : w \in SharedWrites}

\* a thread about to call Extractor.extract from the handler of its write
ThreadAt326(stmts) ==
    [src |-> stmts, at |-> "ensure", saved |-> <<>>, i |-> 1, diagnostics |-> <<>>]

\* registry.py 116: if not cls._sorted
CheckSorted(t) ==
    /\ thr[t].at = "ensure"
    /\ thr' = [thr EXCEPT ![t].at = IF _sorted THEN "loop" ELSE "sort"]
    /\ UNCHANGED <<checkerVars, trk, ret, registryVars, called, _instances>>

\* registry.py 117: cls._registry.sort() takes the items out of the list,
\* which is empty for every reader until the sort ends; a list of fewer than
\* two items is sorted without a comparison, in one step
SortBegin(t) ==
    /\ thr[t].at = "sort"
    /\ IF Len(_registry) < 2
       THEN /\ thr' = [thr EXCEPT ![t].at = "flag"]
            /\ UNCHANGED _registry
       ELSE /\ thr' = [thr EXCEPT ![t].at = "sorting", ![t].saved = _registry]
            /\ _registry' = <<>>
    /\ UNCHANGED <<checkerVars, trk, ret, _sorted, called, _instances>>

\* registry.py 117: the sort ends and puts the sorted items back
SortEnd(t) ==
    /\ thr[t].at = "sorting"
    /\ _registry' = SortByPriority(thr[t].saved)
    /\ thr' = [thr EXCEPT ![t].at = "flag", ![t].saved = <<>>]
    /\ UNCHANGED <<checkerVars, trk, ret, _sorted, called, _instances>>

\* registry.py 118: cls._sorted = True
SetSorted(t) ==
    /\ thr[t].at = "flag"
    /\ _sorted' = TRUE
    /\ thr' = [thr EXCEPT ![t].at = "loop"]
    /\ UNCHANGED <<checkerVars, trk, ret, _registry, called, _instances>>

\* registry.py 143-147: one round of for registered in cls._registry; when
\* extract returns, the rest of the check runs (it shares nothing)
LoopStep(t) ==
    /\ thr[t].at = "loop"
    /\ \E refs \in {IF thr[t].i > Len(_registry) THEN None
                    ELSE ApplyFunc(_registry[thr[t].i].func, thr[t].src[3].value, <<3, 2>>)} :
          IF thr[t].i > Len(_registry) \/ TruthyList(refs)
          THEN thr' = [thr EXCEPT ![t].at = "done",
                                  ![t].diagnostics = CheckWith(thr[t].src, refs)]
          ELSE thr' = [thr EXCEPT ![t].i = @ + 1]
    /\ UNCHANGED <<checkerVars, trk, ret, registryVars, called, _instances>>

InitShared ==
    /\ src = <<>>
    /\ pc = 0
    /\ pending = <<>>
    /\ skip_subscripts = {}
    /\ diagnostics = <<>>
    /\ dfs = EmptyMap
    /\ pandas_aliases = {}
    /\ definitions = EmptyMap
    /\ trk = Tracker("df", "strict")
    /\ ret = NoCall
    /\ _registry = ImportRegistry
    /\ _sorted = FALSE
    /\ called = <<>>
    /\ thr \in [1..MaxThreads -> {ThreadAt326(stmts) : stmts \in SharedSources}]
    /\ _instances = <<>>

NextShared ==
    \E t \in 1..MaxThreads :
        \/ CheckSorted(t)
        \/ SortBegin(t)
        \/ SortEnd(t)
        \/ SetSorted(t)
        \/ LoopStep(t)

SpecShared == InitShared /\ [][NextShared]_vars

-----------------------------------------------------------------------------
(* Checks that run at the same time                                        *)

\* C19: the diagnostics of a check are those of checking its source alone,
\* whatever other checks run before it, after it or at the same time.
C19_DiagnosticsDependOnSourceOnly ==
    \A t \in 1..MaxThreads :
        thr[t].at = "done" => thr[t].diagnostics = CheckAlone(thr[t].src)

\* thread 2 checked df["C"] = df["X"] + df["Y"] while thread 1 was sorting
\* the registry: extract found the registry empty, and the check reported
\* two missing-column reads instead of the invalid assignment
C19_CheckSawEmptyRegistry ==
    /\ thr[1].at = "sorting"
    /\ thr[2].at = "done"
    /\ thr[2].src[3] = SetCols(Col("df", "C"), BinOp(Col("df", "X"), Col("df", "Y")))
    /\ Len(CheckAlone(thr[2].src)) = 1
    /\ CheckAlone(thr[2].src)[1].kind = "wrong_assignment"
    /\ Len(thr[2].diagnostics) = 2
    /\ thr[2].diagnostics[1].kind = "wrong_read"
    /\ thr[2].diagnostics[2].kind = "wrong_read"

-----------------------------------------------------------------------------
(* util/col_similarity.py.  A name is the sequence of its characters.  A   *)
(* similarity is kept as the exact fraction [n, d] of the float the code   *)
(* computes; 0.9 is 9/10.                                                  *)

\* str.lower() of one character
LowerChar(c) == CASE c = "A" -> "a" [] c = "B" -> "b" [] OTHER -> c
lower(s) == [i \in 1..Len(s) |-> LowerChar(s[i])]

Frac(n, d) == [n |-> n, d |-> d]
\* a > b
Greater(a, b) == a.n * b.d > b.n * a.d
Threshold == Frac(9, 10)

Max2(a, b) == IF a >= b THEN a ELSE b
Min2(a, b) == IF a <= b THEN a ELSE b

\* the first j of the window of i (range(max(0, i - max_dist),
\* min(len2, i + max_dist + 1)), counted from 1) with s1[i] == s2[j] and
\* hash_s2[j] == 0; 0 when there is none
FirstMatch(s1, s2, i, max_dist, h2) ==
    LET Found(js) == IF js = {} THEN 0 ELSE CHOOSE j \in js : \A j2 \in js : j <= j2
    IN  Found({j \in Max2(1, i - max_dist)..Min2(Len(s2), i + max_dist) :
                  s1[i] = s2[j] /\ j \notin h2})

\* the matching loop from i on: the sets of matched positions of s1 and s2
RECURSIVE MatchLoop(_, _, _, _, _, _)
MatchLoop(s1, s2, i, max_dist, h1, h2) ==
    IF i > Len(s1) THEN [h1 |-> h1, h2 |-> h2]
    ELSE LET Step(j) ==
                 IF j = 0 THEN MatchLoop(s1, s2, i + 1, max_dist, h1, h2)
                 ELSE MatchLoop(s1, s2, i + 1, max_dist, h1 \cup {i}, h2 \cup {j})
         IN  Step(FirstMatch(s1, s2, i, max_dist, h2))

\* the characters of s at the positions of h, in order
Matched(s, h) ==
    LET Pick(idx) == [k \in 1..Len(idx) |-> s[idx[k]]]
    IN  Pick(SelectSeq([i \in 1..Len(s) |-> i], LAMBDA i : i \in h))

\* t before t // 2: the matched characters that differ, pairwise in order
Transpositions(m1, m2) == Cardinality({k \in 1..Len(m1) : m1[k] # m2[k]})

\* the length of the common prefix
RECURSIVE CommonPrefix(_, _, _)
CommonPrefix(s1, s2, i) ==
    IF i > Min2(Len(s1), Len(s2)) THEN i - 1
    ELSE IF s1[i] = s2[i] THEN CommonPrefix(s1, s2, i + 1)
    ELSE i - 1

\* jaro_winkler(s1, s2)
jaro_winkler(a, b) ==
    LET \* jaro + 0.1 * prefix * (1 - jaro)
        Winkler(jaro, prefix) ==
            Frac(10 * jaro.n + prefix * (jaro.d - jaro.n), 10 * jaro.d)
        \* (match / len1 + match / len2 + (match - t) / match) / 3.0
        Jaro(len1, len2, match, t) ==
            Frac(match * len2 * match + match * len1 * match + (match - t) * len1 * len2,
                 3 * len1 * len2 * match)
        Score(s1, s2, h) ==
            IF Cardinality(h.h1) = 0 THEN Frac(0, 1)
            ELSE Winkler(Jaro(Len(s1), Len(s2), Cardinality(h.h1),
                              Transpositions(Matched(s1, h.h1), Matched(s2, h.h2)) \div 2),
                         Min2(4, CommonPrefix(s1, s2, 1)))
        Lowered(s1, s2) ==
            IF s1 = s2 THEN Frac(1, 1)
            ELSE Score(s1, s2,
                       MatchLoop(s1, s2, 1, (Max2(Len(s1), Len(s2)) \div 2) - 1, {}, {}))
    IN  Lowered(lower(a), lower(b))

\* the first candidate above the threshold, not the best one
zero_deps_jaro_winkler_FirstAbove(target_col, existing_cols) ==
    LET Pick(above) == IF above = <<>> THEN None ELSE Some(above[1])
    IN  Pick(SelectSeq(existing_cols,
                       LAMBDA col : Greater(jaro_winkler(target_col, col), Threshold)))

\* zero_deps_jaro_winkler(target_col, existing_cols): the first key of
\* jw_distances_dict whose value is max(values), if that is > 0.9
zero_deps_jaro_winkler(target_col, existing_cols) ==
    IF existing_cols = <<>> THEN None
    ELSE LET IsMax(col) ==
                 \A i \in 1..Len(existing_cols) :
                     ~Greater(jaro_winkler(target_col, existing_cols[i]),
                              jaro_winkler(target_col, col))
             Pick(best) ==
                 IF Greater(jaro_winkler(target_col, best[1]), Threshold)
                 THEN Some(best[1]) ELSE None
         IN  Pick(SelectSeq(existing_cols, IsMax))

-----------------------------------------------------------------------------
(* The similarity oracle called on its own                                 *)

MaxCols == 2

SimilarNames == {
    <<>>,
    <<"a">>,
    <<"a", "b">>,
    <<"A", "b">>,
    <<"b", "a">>,
    <<"a", "b", "c">>,
    <<"a", "b", "d">>,
    <<"c", "a", "b">>
}

\* one call zero_deps_jaro_winkler(target_col, existing_cols); the function
\* keeps nothing from call to call but the cache of jaro_winkler
Suggest(target_col, existing_cols) ==
    /\ ret = NoCall
    /\ ret' = [op |-> "zero_deps_jaro_winkler", target_col |-> target_col,
               existing_cols |-> existing_cols,
               ret |-> zero_deps_jaro_winkler(target_col, existing_cols)]
    /\ UNCHANGED <<checkerVars, trk, registryVars, called, thr, _instances>>

InitSimilarity ==
    /\ src = <<>>
    /\ CheckerInit
    /\ trk = Tracker("df", "strict")
    /\ ret = NoCall

NextSimilarity ==
    \E target_col \in SimilarNames, existing_cols \in SeqsUpTo(SimilarNames, MaxCols) :
        Suggest(target_col, existing_cols)

SpecSimilarity == InitSimilarity /\ [][NextSimilarity]_vars

-----------------------------------------------------------------------------
(* What the similarity oracle suggests                                     *)

\* C20: the oracle returns nothing for an empty candidate list; what it
\* returns is a candidate whose similarity to the missing column is above
\* 0.9 and is the highest among the candidates; and it returns nothing only
\* when no candidate's similarity is above 0.9.
C20_SuggestsBestAboveThreshold ==
    ret.op = "zero_deps_jaro_winkler" =>
        /\ ret.existing_cols = <<>> => ret.ret = None
        /\ ~ret.ret.none =>
              /\ ret.ret.v \in SeqToSet(ret.existing_cols)
              /\ Greater(jaro_winkler(ret.target_col, ret.ret.v), Threshold)
              /\ \A c \in SeqToSet(ret.existing_cols) :
                    ~Greater(jaro_winkler(ret.target_col, c),
                             jaro_winkler(ret.target_col, ret.ret.v))
        /\ ret.ret.none =>
              \A c \in SeqToSet(ret.existing_cols) :
                  ~Greater(jaro_winkler(ret.target_col, c), Threshold)

\* the oracle was asked for "ab" among "abc" and "Ab" and returned "Ab",
\* which is not the first candidate above 0.9 but the best one
C20_BestCandidateSuggested ==
    /\ ret.op = "zero_deps_jaro_winkler"
    /\ ret.target_col = <<"a", "b">>
    /\ ret.existing_cols = << <<"a", "b", "c">>, <<"A", "b">> >>
    /\ Greater(jaro_winkler(<<"a", "b">>, <<"a", "b", "c">>), Threshold)
    /\ ret.ret = Some(<<"A", "b">>)
-----------------------------------------------------------------------------
(* Dependencies recorded by the tracker                                    *)

\* the dependency set of c in tracker t, empty while c is not a key
DepsIn(t, c) == IF c \in DOMAIN t.columns THEN t.columns[c] ELSE {}

\* the names a call try_add(column, depends_on=d) gives as dependencies
WrittenDeps(d) == IF d.none THEN {} ELSE SeqToSet(DepSeq(d))

\* C21: a tracker starts with every dependency set empty, and each call
\* leaves the dependency set of every column as the union of what it was and
\* the dependency list of the call when the call is a successful write to
\* that column, so that a dependency set is the union of the dependency
\* lists of the successful writes to the column and never loses a member;
\* a write with no dependencies or with an empty list returns None.
C21_DependenciesAreUnionOfWrites ==
    /\ \A c \in DOMAIN trk.columns : trk.columns[c] = {}
    /\ [][/\ DOMAIN trk.columns \subseteq DOMAIN trk'.columns
          /\ \A c \in DOMAIN trk'.columns :
                DepsIn(trk', c) =
                    DepsIn(trk, c) \cup
                    (IF ret'.op = "try_add" /\ ret'.ret = None /\ ret'.column = c
                     THEN WrittenDeps(ret'.depends_on) ELSE {})
          /\ (ret'.op = "try_add" /\ WrittenDeps(ret'.depends_on) = {}) =>
                ret'.ret = None]_vars

\* A, which depended on B, has just been written again with the empty
\* dependency list and still depends on B
C21_EmptyRewriteKeptDependency ==
    /\ ret.op = "try_add"
    /\ ret.column = "A"
    /\ ret.depends_on = DepList(<<>>)
    /\ ret.ret = None
    /\ "A" \in DOMAIN trk.columns
    /\ trk.columns["A"] = {"B"}

-----------------------------------------------------------------------------
(* The order of the references of a binary operation                       *)

\* the references of the leaves of a tree of binary operations whose leaves
\* are all column references, in the left-to-right order of the source
RECURSIVE LeafRefs(_, _)
LeafRefs(e, path) ==
    IF e.k = "BinOp"
    THEN LeafRefs(e.left, Append(path, 1)) \o LeafRefs(e.right, Append(path, 2))
    ELSE <<ColumnRef(path, e.value.id, NamesOf(e))>>

Reverse(s) == [i \in 1..Len(s) |-> s[Len(s) + 1 - i]]

-----------------------------------------------------------------------------
(* Unregistering an extractor                                              *)

\* the names of the entries of a registry
RegisteredNames(registry) == {registry[i].name : i \in 1..Len(registry)}

\* C23: unregister(name) returns True exactly when an entry with that name
\* was registered; after it returns True no entry of the registry (which is
\* what get_registered() lists) has that name, and when it returns False the
\* registry is as it was.
C23_UnregisterRemovesName ==
    [][ret'.op = "unregister" =>
          /\ ret'.ret = Some(ret'.column \in RegisteredNames(_registry))
          /\ ret'.ret = Some(TRUE) => ret'.column \notin RegisteredNames(_registry')
          /\ ret'.ret = Some(FALSE) => _registry' = _registry]_vars

\* unregister("a") has just returned True and an extractor named a is still
\* registered
C23_NameStillRegistered ==
    /\ ret.op = "unregister"
    /\ ret.column = "a"
    /\ ret.ret = Some(TRUE)
    /\ "a" \in RegisteredNames(_registry)

-----------------------------------------------------------------------------
(* Column writes that read another frame                                   *)

\* the column references of a column-bearing expression
RECURSIVE RhsRefs(_)
RhsRefs(e) == IF e.k = "BinOp" THEN RhsRefs(e.left) \cup RhsRefs(e.right) ELSE {e}

\* every rhs column exists in the frame it is read from
RhsColsInOwnFrames ==
    \A r \in RhsRefs(Cur.value) : ColsOf(r) \subseteq DOMAIN dfs[r.value.id].columns

\* the diagnostics the step appended
Appended == SubSeq(diagnostics', Len(diagnostics) + 1, Len(diagnostics'))

\* C24: a column write on a tracked frame whose recognized rhs reads a
\* tracked frame other than the target, every rhs column being a column of
\* the frame it is read from, emits no invalid-assignment diagnostic.
C24_RhsCheckedAgainstOwnFrame ==
    [][(/\ AtRecognizedWrite
        /\ RhsFrames(Cur.value) # {Tgt(Cur)}
        /\ RhsColsInOwnFrames) =>
          \A i \in 1..Len(Appended) : Appended[i].kind # "wrong_assignment"]_vars

\* df["C"] = d2["X"] was handled with X a column of d2 and not of df, and
\* an invalid assignment missing X on df was reported
C24_OtherFrameColumnReportedMissing ==
    /\ pc >= 1
    /\ Last = SetCols(Col("df", "C"), Col("d2", "X"))
    /\ "d2" \in DOMAIN dfs
    /\ "X" \in DOMAIN dfs["d2"].columns
    /\ diagnostics # <<>>
    /\ diagnostics[Len(diagnostics)].kind = "wrong_assignment"
    /\ diagnostics[Len(diagnostics)].df_name = "df"
    /\ diagnostics[Len(diagnostics)].cols = <<"X">>

-----------------------------------------------------------------------------
(* Multi-column references on the right-hand side                          *)

\* the statement before pc is a column write on a tracked frame with a
\* recognized rhs all of whose frames are tracked, and the visit of the
\* statement is complete
AfterRecognizedWrite ==
    /\ pc >= 1
    /\ pending = <<>>
    /\ ColumnWrite(Last)
    /\ Tgt(Last) \in DOMAIN dfs
    /\ IsColumnExpr(Last.value)
    /\ RhsFrames(Last.value) \subseteq DOMAIN dfs

\* some diagnostic of the statement before pc names column c
Reported(c) ==
    \E i \in 1..Len(diagnostics) :
        /\ diagnostics[i].region[1] = pc
        /\ c \in SeqToSet(diagnostics[i].cols)

\* C25: once a column write with a recognized rhs has been visited, every
\* column named by a multi-column reference of the rhs that its frame's
\* tracker does not hold (it did not hold it before the statement either:
\* a write removes no column) is named by a diagnostic of that statement.
C25_MultiColumnRhsFullyValidated ==
    AfterRecognizedWrite =>
        \A r \in RhsRefs(Last.value) :
            ~IsStrConst(r.slice) =>
                \A c \in ColsOf(r) \ DOMAIN dfs[r.value.id].columns : Reported(c)

\* df["C"] = df[["A", "X"]] has been visited on a frame without X: the rhs
\* node is marked as handled, C depends on A alone and no diagnostic names X
C25_SecondColumnNeverChecked ==
    /\ AfterRecognizedWrite
    /\ Last = SetCols(Col("df", "C"), MultiCol("df", <<"A", "X">>))
    /\ "X" \notin DOMAIN dfs["df"].columns
    /\ <<pc, 2>> \in skip_subscripts
    /\ dfs["df"].columns["C"] = {"A"}
    /\ ~Reported("X")

-----------------------------------------------------------------------------
(* Sources that write columns of df from columns of df: the prelude, then  *)
(* up to MaxSelf column writes and reads.                                  *)

MaxSelf == 2

SelfBody == {
    \* df["C"] = df["C"]
    SetCols(Col("df", "C"), Col("df", "C")),
    \* df["C"] = df["C"] + df["A"]
    SetCols(Col("df", "C"), BinOp(Col("df", "C"), Col("df", "A"))),
    \* df["C"] = df["C"] + 1
    SetCols(Col("df", "C"), BinOp(Col("df", "C"), Num("1"))),
    \* df["C"] = df["C"].fillna(0)
    SetCols(Col("df", "C"), Call(Attribute(Col("df", "C"), "fillna"), <<Num("0")>>, <<>>)),
    \* df["C"] = f(df["C"])
    SetCols(Col("df", "C"), Call(Name("f"), <<Col("df", "C")>>, <<>>)),
    \* df[["C", "D"]] = df["D"] + 1
    SetCols(MultiCol("df", <<"C", "D">>), BinOp(Col("df", "D"), Num("1"))),
    \* df["A"] = df["A"] + 1
    SetCols(Col("df", "A"), BinOp(Col("df", "A"), Num("1"))),
    \* df["D"] = f(df["C"])
    SetCols(Col("df", "D"), Call(Name("f"), <<Col("df", "C")>>, <<>>)),
    \* df["C"] = df["A"]
    SetCols(Col("df", "C"), Col("df", "A")),
    \* df["C"] = 1
    SetCols(Col("df", "C"), Num("1")),
    \* df["C"]
    Expr(Col("df", "C"))
}

SelfSources == {<<ImportPd, CreateDf>> \o b : b \in SeqsUpTo(SelfBody, MaxSelf)}

InitSelf ==
    /\ src \in SelfSources
    /\ CheckerInit
    /\ trk = Tracker("df", "strict")
    /\ ret = NoCall

SpecSelf == InitSelf /\ [][Next]_vars

\* the columns of df that statement i reads with df["c"] on its rhs
RhsReads(i) ==
    {r.node.slice.value :
        r \in {x \in SeqToSet(SubsOf(src[i].value, <<i, 2>>)) :
                  x.node.value = Name("df") /\ IsStrConst(x.node.slice)}}

\* the columns df has before statement i of a source of SelfSources: those
\* it was created with, and the targets of the earlier writes that
\* succeeded; a superset of them, read off the text, is the columns of the
\* constructor and the targets of all the earlier writes
WrittenBefore(i) ==
    {"A", "B"} \cup UNION {ColsOf(src[j].targets[1]) :
                              j \in {k \in 3..(i - 1) : ColumnWrite(src[k])}}

\* C26: once a column write to df has been visited, every target column
\* that the rhs reads with df["c"] and that no earlier statement gave to df
\* is named by a diagnostic of that statement, whatever the form of the
\* rhs.
C26_RhsReadsSeeSchemaBeforeWrite ==
    (pc >= 3 /\ pending = <<>> /\ ColumnWrite(Last)) =>
        \A c \in (ColsOf(Last.targets[1]) \cap RhsReads(pc)) \ WrittenBefore(pc) :
            Reported(c)

\* df["C"] = df["C"] + 1 was visited as the first write of the source: df
\* now holds C and nothing was reported
C26_SelfReadUnreported ==
    /\ pc = 3
    /\ pending = <<>>
    /\ Last = SetCols(Col("df", "C"), BinOp(Col("df", "C"), Num("1")))
    /\ "C" \in DOMAIN dfs["df"].columns
    /\ diagnostics = <<>>

-----------------------------------------------------------------------------
(* Sources that assign the name df again: the prelude, then up to          *)
(* MaxRebind statements.                                                   *)

MaxRebind == 2

RebindBody == {
    \* df = pd.DataFrame({"B": [1]})
    SetVar("df", PdCall("DataFrame", <<Dict(<<Str("B")>>, <<Ones>>)>>, <<>>)),
    \* df = pd.read_csv("g.csv")
    SetVar("df", PdCall("read_csv", <<Str("g.csv")>>, <<>>)),
    \* df = pd.DataFrame(data)
    SetVar("df", PdCall("DataFrame", <<Name("data")>>, <<>>)),
    \* df = pd.read_excel("g.xlsx")
    SetVar("df", PdCall("read_excel", <<Str("g.xlsx")>>, <<>>)),
    \* df = load()
    SetVar("df", Call(Name("load"), <<>>, <<>>)),
    \* df = 1
    SetVar("df", Num("1")),
    \* df = df.assign(D=[1])
    SetVar("df", DfCall("df", "assign", <<>>, <<keyword("D", Ones)>>)),
    \* df["C"] = df["A"]
    SetCols(Col("df", "C"), Col("df", "A")),
    \* df["C"] = df["Z"]
    SetCols(Col("df", "C"), Col("df", "Z")),
    \* df["A"]
    Expr(Col("df", "A")),
    \* df["Z"]
    Expr(Col("df", "Z"))
}

RebindSources == {<<ImportPd, CreateDf>> \o b : b \in SeqsUpTo(RebindBody, MaxRebind)}

InitRebind ==
    /\ src \in RebindSources
    /\ CheckerInit
    /\ trk = Tracker("df", "strict")
    /\ ret = NoCall

SpecRebind == InitRebind /\ [][Next]_vars

\* s assigns the plain name x
AssignsName(s, x) == s.k = "Assign" /\ Len(s.targets) = 1 /\ s.targets[1] = Name(x)

\* the columns of the value can be read off the text: a constructor call on
\* a dict display, or frame.assign(...)
Determinable(v) ==
    /\ IsNameAttrCall(v)
    /\ \/ /\ v.func.value.id = "pd"
          /\ v.func.attr = "DataFrame"
          /\ Len(v.args) >= 1
          /\ v.args[1].k = "Dict"
       \/ /\ v.func.value.id = "df"
          /\ v.func.attr = "assign"

\* the statements before statement k that assign the name x
AssignedBefore(x, k) == {j \in 1..(k - 1) : AssignsName(src[j], x)}

\* the last of them
LastAssigned(x, k) == CHOOSE j \in AssignedBefore(x, k) : \A j2 \in AssignedBefore(x, k) : j2 <= j

\* C27: every missing-column or invalid-assignment diagnostic on a frame x
\* comes from a statement before which the last assignment to the name x
\* is one whose columns can be determined: after x is assigned a value
\* whose columns cannot be determined, reads and writes of x are not
\* validated against the columns recorded earlier.
C27_StaleTrackerNotUsed ==
    \A i \in 1..Len(diagnostics) :
        diagnostics[i].kind \in {"wrong_read", "wrong_assignment"} =>
            /\ AssignedBefore(diagnostics[i].df_name, diagnostics[i].region[1]) # {}
            /\ Determinable(src[LastAssigned(diagnostics[i].df_name,
                                             diagnostics[i].region[1])].value)

\* after df = pd.read_csv("g.csv") the read df["Z"] was reported as missing
\* from the columns A, B that the earlier constructor call gave
C27_ReadCheckedAgainstOldColumns ==
    /\ pc = 4
    /\ pending = <<>>
    /\ src[3] = SetVar("df", PdCall("read_csv", <<Str("g.csv")>>, <<>>))
    /\ src[4] = Expr(Col("df", "Z"))
    /\ Len(diagnostics) = 1
    /\ diagnostics[1].kind = "wrong_read"
    /\ diagnostics[1].available = {"A", "B"}

-----------------------------------------------------------------------------
(* Dependencies across a method-call re-assignment                         *)

\* the handler of x = x.m(...), m a registered method and x tracked, is
\* about to run
AtSelfMethodAssign ==
    /\ AtMethodAssign
    /\ Cur.value.func.value.id = Cur.targets[1].id

\* C28: x = x.m(...) leaves every column that x's tracker held in the
\* tracker with the dependency set it had, so that no such column joins the
\* independent columns.
C28_DependenciesSurviveReassignment ==
    [][AtSelfMethodAssign =>
          /\ Cur.targets[1].id \in DOMAIN dfs'
          /\ \A c \in DOMAIN dfs[Cur.targets[1].id].columns :
                /\ c \in DOMAIN dfs'[Cur.targets[1].id].columns
                /\ dfs'[Cur.targets[1].id].columns[c] = dfs[Cur.targets[1].id].columns[c]
          /\ get_core(dfs'[Cur.targets[1].id]) \cap DOMAIN dfs[Cur.targets[1].id].columns
                 \subseteq get_core(dfs[Cur.targets[1].id])]_vars

\* df["C"] = df["A"] and then df = df.assign(D=[1]) have been handled: C is
\* still a column of df, without dependencies
C28_DependencyLost ==
    /\ pc = 4
    /\ src[3] = SetCols(Col("df", "C"), Col("df", "A"))
    /\ src[4] = SetVar("df", DfCall("df", "assign", <<>>, <<keyword("D", Ones)>>))
    /\ DOMAIN dfs["df"].columns = {"A", "B", "C", "D"}
    /\ "C" \in get_core(dfs["df"])

-----------------------------------------------------------------------------
(* Dependency closure                                                      *)

\* C29: in a tracker made by Tracker(...) or new_with_columns and driven by
\* try_get and try_add, in strict and in relaxed mode, every name in the
\* dependency set of a column is itself a key of the column map.
C29_DependenciesAreColumns ==
    \A c \in DOMAIN trk.columns : trk.columns[c] \subseteq DOMAIN trk.columns

\* a strict tracker has just accepted try_add("B", depends_on="A"): B
\* depends on A, which is a column
C29_DependencyIsColumn ==
    /\ _is_strict(trk)
    /\ ret.op = "try_add"
    /\ ret.column = "B"
    /\ ret.depends_on = DepStr("A")
    /\ ret.ret = None
    /\ "A" \in DOMAIN trk.columns
    /\ trk.columns["B"] = {"A"}

-----------------------------------------------------------------------------
(* models/region.py and models/history.py: an InstanceTimeline driven      *)
(* through add.  A position is a (row, col) pair, a region a pair of       *)
(* positions, an instance an id and a region.                              *)

TimelineId == "df"

MaxRow == 2
MaxInstances == 3

\* CodePosition, a dataclass with order=True: compared as (row, col)
CodePosition(row, col) == [row |-> row, col |-> col]
PosLt(p, q) == p.row < q.row \/ (p.row = q.row /\ p.col < q.col)

\* CodeRegion, a dataclass with order=True: compared as (start, end)
CodeRegion(start, end) == [start |-> start, end |-> end]
RegionLt(r, q) == PosLt(r.start, q.start) \/ (r.start = q.start /\ PosLt(r.end, q.end))

\* FrameInstance and its __lt__
FrameInstance(id, region) == [id |-> id, region |-> region]
InstanceLt(self, other) == self.id = other.id /\ PosLt(self.region.end, other.region.start)

\* InstanceTimeline.latest_instance
latest_instance(instances) ==
    IF instances # <<>> THEN Some(instances[Len(instances)]) ELSE None

\* the search of bisect.insort (insort_right): indexes count from 0
RECURSIVE Bisect(_, _, _, _)
Bisect(a, x, lo, hi) ==
    IF lo < hi
    THEN LET Step(mid) ==
                 IF InstanceLt(x, a[mid + 1]) THEN Bisect(a, x, lo, mid)
                 ELSE Bisect(a, x, mid + 1, hi)
         IN  Step((lo + hi) \div 2)
    ELSE lo

\* list.insert(lo, x)
InsertAt(a, lo, x) == SubSeq(a, 1, lo) \o <<x>> \o SubSeq(a, lo + 1, Len(a))

\* bisect.insort(a, x)
insort(a, x) == InsertAt(a, Bisect(a, x, 0, Len(a)), x)

\* InstanceTimeline.add: the exception it raises, if any, and _instances
\* afterwards.  None < instance raises TypeError: NoneType has no ordering
\* and FrameInstance.__gt__, which total_ordering derives from __lt__,
\* returns NotImplemented for an operand that is no FrameInstance.
add(id, instances, instance) ==
    IF instance.id # id THEN [raised |-> "ValueError", instances |-> instances]
    ELSE LET FastPath(latest) ==
                 IF latest.none THEN [raised |-> "TypeError", instances |-> instances]
                 ELSE IF InstanceLt(latest.v, instance)
                 THEN [raised |-> "", instances |-> insort(Append(instances, instance), instance)]
                 ELSE [raised |-> "", instances |-> insort(instances, instance)]
         IN  FastPath(latest_instance(instances))

\* the positions, and the regions an instance can have: CodeRegion refuses
\* an end before its start, and the region of a node is never empty
Positions == {CodePosition(row, col) : row \in 1..MaxRow, col \in 0..1}
Regions == {r \in {CodeRegion(p, q) : p \in Positions, q \in Positions} :
               PosLt(r.start, r.end)}
Instances == {FrameInstance(id, r) : id \in {TimelineId, "d2"}, r \in Regions}

\* end-exclusive regions that share no position
Disjoint(r, q) == ~PosLt(r.start, q.end) \/ ~PosLt(q.start, r.end)

\* instances of the timeline's id, pairwise disjoint, each once, in
\* increasing region order
InOrder(instances) ==
    /\ \A i \in 1..Len(instances) : instances[i].id = TimelineId
    /\ \A i, j \in 1..Len(instances) :
          i < j => /\ RegionLt(instances[i].region, instances[j].region)
                   /\ Disjoint(instances[i].region, instances[j].region)

\* timeline.add(instance)
Add(instance) ==
    /\ Len(_instances) < MaxInstances
    /\ \E r \in {add(TimelineId, _instances, instance)} :
          /\ _instances' = r.instances
          /\ ret' = [op |-> "add", instance |-> instance, raised |-> r.raised]
    /\ UNCHANGED <<checkerVars, trk, registryVars, called, thr>>

\* InstanceTimeline(id="df"), or InstanceTimeline(id="df", _instances=l)
\* with a list l as add is meant to keep it
InitTimeline ==
    /\ src = <<>>
    /\ pc = 0
    /\ pending = <<>>
    /\ skip_subscripts = {}
    /\ diagnostics = <<>>
    /\ dfs = EmptyMap
    /\ pandas_aliases = {}
    /\ definitions = EmptyMap
    /\ trk = Tracker("df", "strict")
    /\ ret = NoCall
    /\ _registry = ImportRegistry
    /\ _sorted = FALSE
    /\ called = <<>>
    /\ thr = NoThreads
    /\ _instances \in {l \in SeqsUpTo(Instances, MaxInstances - 1) : InOrder(l)}

NextTimeline == \E instance \in Instances : Add(instance)

SpecTimeline == InitTimeline /\ [][NextTimeline]_vars

\* C30: add, called on a timeline that holds instances of its id with
\* pairwise disjoint regions, each once and in increasing region order (the
\* empty timeline is one), with an instance of the timeline's id whose
\* region is disjoint from theirs, raises nothing and leaves the timeline
\* holding those instances and the new one, each once and in increasing
\* region order, so that latest_instance is the one with the greatest
\* region.
C30_AddKeepsTimelineOrdered ==
    [][(/\ ret'.op = "add"
        /\ ret'.instance.id = TimelineId
        /\ InOrder(_instances)
        /\ \A i \in 1..Len(_instances) :
              Disjoint(ret'.instance.region, _instances[i].region)) =>
          /\ ret'.raised = ""
          /\ Len(_instances') = Len(_instances) + 1
          /\ SeqToSet(_instances') = SeqToSet(_instances) \cup {ret'.instance}
          /\ InOrder(_instances')
          /\ \A i \in 1..Len(_instances') :
                ~RegionLt(latest_instance(_instances').v.region,
                          _instances'[i].region)]_vars

\* the first add on the empty timeline raised TypeError and the timeline is
\* still empty
C30_FirstAddRaised ==
    /\ ret.op = "add"
    /\ ret.instance.id = TimelineId
    /\ ret.raised = "TypeError"
    /\ _instances = <<>>

====
